---------------------------- MODULE Spec2Model ----------------------------
(***************************************************************************)
(* A model of riscyOS: the bitmap frame allocator (memory/frames.rs), the  *)
(* Sv39 page tables (memory/paging.rs), the kernel region mapper           *)
(* (memory/mod.rs) and the linked-list kernel heap (memory/alloc).         *)
(*                                                                         *)
(* A 64-bit bitmap word is the set of its set bit positions (0..63), so    *)
(* every shift, rotate and mask keeps the width of a u64.  Addresses are   *)
(* integers.  A Rust panic (panic!, assert!, unwrap on None, todo!, slice  *)
(* index out of range) ends the program: every operator returns the kind   *)
(* of panic it ended in together with the state it left behind, and no     *)
(* action is enabled after a panic.                                        *)
(***************************************************************************)
EXTENDS Integers, Sequences, FiniteSets, TLC

VARIABLES FRAMES_ALLOCATOR, \* frames.rs: the BitmapAllocator behind the lock
          mem,              \* the arena's page tables: frame address -> entries
          root,             \* the root table main() creates
          ALLOCATOR,        \* alloc/mod.rs: the heap's free list
          hist,             \* the calls made so far, with their results
          lock,             \* the SpinMutex around FRAMES_ALLOCATOR: its holder, or 0
          ctx,              \* each execution context's call in progress
          scheduler         \* scheduler/: the scheduler the ProcessRunner owns

vars == <<FRAMES_ALLOCATOR, mem, root, ALLOCATOR, hist, lock, ctx, scheduler>>

-----------------------------------------------------------------------------
(* Program constants *)

FRAME_SIZE == 4096
KIB == 1024
BITMAP_ENTRY_BITS == 64
BITMAP_ENTRY_SIZE_BYTES == BITMAP_ENTRY_BITS * FRAME_SIZE
PAGE_TABLE_LEN == 512

KiB4 == 0
MiB2 == 1
GiB1 == 2
PageEntryLevel == {KiB4, MiB2, GiB1}

\* PageEntryLevel::size
LevelSize(level) == 4096 * (512 ^ level)

-----------------------------------------------------------------------------
(* u64 words as sets of bit positions *)

Bits == 0 .. (BITMAP_ENTRY_BITS - 1)
U64_MAX == Bits
U64_ZERO == {}

Min(S) == CHOOSE x \in S : \A y \in S : x <= y
Max(S) == CHOOSE x \in S : \A y \in S : x >= y

\* e << n, for 0 <= n < 64
Shl(e, n) == {b + n : b \in e} \cap Bits
\* e >> n
Shr(e, n) == {b - n : b \in {c \in e : c >= n}}
\* e.rotate_left(n)
RotateLeft(e, n) == {(b + n) % BITMAP_ENTRY_BITS : b \in e}
\* !e
Not(e) == Bits \ e
RECURSIVE OnesFrom(_, _)
OnesFrom(e, i) == IF i < BITMAP_ENTRY_BITS /\ i \in e THEN OnesFrom(e, i + 1) ELSE i
\* e.trailing_ones()
TrailingOnes(e) == OnesFrom(e, 0)
RECURSIVE ZerosDownFrom(_, _)
ZerosDownFrom(e, i) == IF i >= 0 /\ i \notin e THEN ZerosDownFrom(e, i - 1) ELSE i
\* e.leading_zeros()
LeadingZeros(e) == BITMAP_ENTRY_BITS - 1 - ZerosDownFrom(e, BITMAP_ENTRY_BITS - 1)
\* e.count_zeros()
CountZeros(e) == BITMAP_ENTRY_BITS - Cardinality(e)

\* ptr.align_offset(align): bytes to the next multiple of align
AlignOffset(addr, align) == (align - (addr % align)) % align

-----------------------------------------------------------------------------
(* frames.rs: BitmapAllocator.  self is the record                        *)
(*   [bitmap, size, mem_start, mem_end];                                   *)
(* bitmap is a function on 0 .. size-1.  Every operation returns           *)
(*   [self |-> the allocator it leaves, ret |-> its value, panic |-> kind] *)

NoPanic == "none"

Ok(self, ret) == [self |-> self, ret |-> ret, panic |-> NoPanic]
Panic(self, kind) == [self |-> self, ret |-> 0, panic |-> kind]

WithBitmap(self, bm) == [self EXCEPT !.bitmap = bm]

\* BitmapAllocator::new
new == [bitmap |-> <<>>, size |-> 0, mem_start |-> 0, mem_end |-> 0]

\* BitmapAllocator::bitmap_entry_index_bit: <<entry_index, entry_bit>>
bitmap_entry_index_bit(self, address) ==
    << (address - self.mem_start) \div BITMAP_ENTRY_SIZE_BYTES,
       ((address - self.mem_start) \div FRAME_SIZE) % BITMAP_ENTRY_BITS >>

\* BitmapAllocator::set_used
set_used(self, address) ==
    LET ib == bitmap_entry_index_bit(self, address)
    IN  WithBitmap(self, [self.bitmap EXCEPT ![ib[1]] = @ \cup {ib[2]}])

RECURSIVE MarkBitmapFrames(_, _, _)
\* the loop of init: frames frame .. count-1 of the region marked used
MarkBitmapFrames(self, frame, count) ==
    IF frame >= count THEN self
    ELSE MarkBitmapFrames(set_used(self, self.mem_start + frame * FRAME_SIZE),
                          frame + 1, count)

\* BitmapAllocator::init
init(self, start, end) ==
    LET num_frames == (end - start) \div FRAME_SIZE
        size == num_frames \div BITMAP_ENTRY_BITS + 1
        cleared == [bitmap |-> [i \in 0 .. (size - 1) |-> U64_ZERO],
                    size |-> size, mem_start |-> start, mem_end |-> end]
    IN  MarkBitmapFrames(cleared, 0, size \div FRAME_SIZE + 1)

\* init_frames_allocation
init_frames_allocation(start, size) ==
    LET aligned == start + AlignOffset(start, 64)
    IN  init(new, aligned, aligned + size)


\* iter().position(..) over the indices that satisfy the closure
FirstIndex(hits) ==
    IF hits = {} THEN -1 ELSE Min(hits)

\* slice.get(from..to): a range inside the bitmap
InBitmap(self, from, to) == from <= to /\ to <= self.size

\* the words from .. to-1 set to value
FillRange(self, from, to, value) ==
    WithBitmap(self, [i \in 0 .. (self.size - 1) |->
                        IF from <= i /\ i < to THEN value ELSE self.bitmap[i]])

\* BitmapAllocator::intra_alloc_contigous_4k_frames: 64 or fewer frames
intra_alloc_contigous_4k_frames(self, num_frames) ==
    IF num_frames = BITMAP_ENTRY_BITS
    THEN LET index == FirstIndex({i \in 0 .. (self.size - 1) :
                          self.bitmap[i] = U64_ZERO})
             page_ptr == self.mem_start + index * BITMAP_ENTRY_SIZE_BYTES
             marked == FillRange(self, index, index + 1, U64_MAX)
         IN  IF index = -1 THEN Panic(self, "unwrap_none")
             ELSE IF page_ptr < self.mem_end THEN Ok(marked, page_ptr)
             ELSE Panic(marked, "no_frames")
    ELSE LET mask == Shl(U64_MAX, num_frames)
             Window(e) == {i \in 0 .. (BITMAP_ENTRY_BITS - num_frames - 1) :
                              (Shr(e, i) \cup mask) = mask}
             index == FirstIndex({i \in 0 .. (self.size - 1) :
                          /\ CountZeros(self.bitmap[i]) >= num_frames
                          /\ Window(self.bitmap[i]) # {}})
             entry == self.bitmap[index]
             bit_index == Min(Window(entry))
             marked == WithBitmap(self, [self.bitmap EXCEPT ![index] =
                          @ \cup RotateLeft(Not(mask), bit_index)])
             page_ptr == self.mem_start + index * BITMAP_ENTRY_SIZE_BYTES
                            + bit_index * FRAME_SIZE
         IN  IF index = -1 THEN Panic(self, "no_frames")
             ELSE IF page_ptr < self.mem_end THEN Ok(marked, page_ptr)
             ELSE Panic(marked, "no_frames")

RECURSIVE InterScan(_, _, _, _)
\* the while loop of inter_alloc_contigous_4k_frames, from start_index
InterScan(self, start_index, entries_needed, remaining_bits_needed) ==
    LET range_end == start_index + entries_needed
        page_ptr == self.mem_start + start_index * BITMAP_ENTRY_SIZE_BYTES
        marked == FillRange(self, start_index, range_end, U64_MAX)
        tail == IF remaining_bits_needed > 0
                THEN WithBitmap(marked, [marked.bitmap EXCEPT ![range_end] =
                        @ \cup Not(Shl(U64_MAX, remaining_bits_needed))])
                ELSE marked
    IN  IF ~(self.mem_start + start_index < self.mem_end - entries_needed - 1)
        THEN Panic(self, "no_frames")
        ELSE IF ~InBitmap(self, start_index, range_end)
        THEN Panic(self, "unwrap_none")
        ELSE IF \E i \in start_index .. (range_end - 1) : self.bitmap[i] # U64_ZERO
        THEN InterScan(self, start_index + entries_needed,
                       entries_needed, remaining_bits_needed)
        ELSE IF remaining_bits_needed # 0 /\ range_end >= self.size
        THEN Panic(self, "unwrap_none")
        ELSE IF remaining_bits_needed # 0
                /\ LeadingZeros(self.bitmap[range_end]) < remaining_bits_needed
        THEN InterScan(self, start_index + range_end + 1,
                       entries_needed, remaining_bits_needed)
        ELSE IF page_ptr < self.mem_end THEN Ok(tail, page_ptr)
        ELSE Panic(self, "no_frames")

\* BitmapAllocator::inter_alloc_contigous_4k_frames: more than 64 frames
inter_alloc_contigous_4k_frames(self, num_frames) ==
    InterScan(self, 0, num_frames \div BITMAP_ENTRY_BITS,
              num_frames % BITMAP_ENTRY_BITS)

RECURSIVE GroupScan(_, _, _)
\* the while loop of alloc_contigous: the first all-zero group of
\* num_entries words at start_index, start_index + num_entries, ...;
\* -1 when the range leaves the bitmap (get(..).unwrap() on None)
GroupScan(self, start_index, num_entries) ==
    IF ~InBitmap(self, start_index, start_index + num_entries) THEN -1
    ELSE IF \E i \in start_index .. (start_index + num_entries - 1) :
                self.bitmap[i] # U64_ZERO
    THEN GroupScan(self, start_index + num_entries, num_entries)
    ELSE start_index

\* alloc_contigous without its closing assertion that the address is a
\* multiple of the level's size
alloc_contigous_no_assert(self, num_frames, level) ==
    IF level = KiB4
    THEN IF num_frames <= BITMAP_ENTRY_BITS
         THEN intra_alloc_contigous_4k_frames(self, num_frames)
         ELSE inter_alloc_contigous_4k_frames(self, num_frames)
    ELSE LET entries == ((LevelSize(level) \div FRAME_SIZE) * num_frames)
                            \div BITMAP_ENTRY_BITS
             num_entries == IF entries > 1 THEN entries ELSE 1
             first == AlignOffset(self.mem_start, LevelSize(level))
                          \div (BITMAP_ENTRY_BITS * KIB)
             start_index == GroupScan(self, first, num_entries)
             marked == FillRange(self, start_index, start_index + num_entries, U64_MAX)
             page_ptr == self.mem_start + start_index * BITMAP_ENTRY_SIZE_BYTES
         IN  IF start_index = -1 THEN Panic(self, "unwrap_none")
             ELSE Ok(marked, page_ptr)

\* BitmapAllocator::alloc_contigous
alloc_contigous(self, num_frames, level) ==
    IF level = KiB4
    THEN IF num_frames <= BITMAP_ENTRY_BITS
         THEN intra_alloc_contigous_4k_frames(self, num_frames)
         ELSE inter_alloc_contigous_4k_frames(self, num_frames)
    ELSE LET entries == ((LevelSize(level) \div FRAME_SIZE) * num_frames)
                            \div BITMAP_ENTRY_BITS
             num_entries == IF entries > 1 THEN entries ELSE 1
             first == AlignOffset(self.mem_start, LevelSize(level))
                          \div (BITMAP_ENTRY_BITS * KIB)
             start_index == GroupScan(self, first, num_entries)
             marked == FillRange(self, start_index, start_index + num_entries, U64_MAX)
             page_ptr == self.mem_start + start_index * BITMAP_ENTRY_SIZE_BYTES
         IN  IF start_index = -1 THEN Panic(self, "unwrap_none")
             ELSE IF page_ptr % LevelSize(level) # 0 THEN Panic(marked, "not_aligned")
             ELSE Ok(marked, page_ptr)

\* BitmapAllocator::alloc_single
alloc_single(self, level) ==
    IF level = KiB4
    THEN CHOOSE res \in
             { LET bit_index == TrailingOnes(self.bitmap[index])
                   frame_ptr == self.mem_start + index * BITMAP_ENTRY_SIZE_BYTES
                                   + bit_index * FRAME_SIZE
               IN  IF index # -1 /\ frame_ptr <= self.mem_end
                   THEN Ok(WithBitmap(self, [self.bitmap EXCEPT
                                                ![index] = @ \cup {bit_index}]),
                           frame_ptr)
                   ELSE Panic(self, "no_frames")
               : index \in {FirstIndex({i \in 0 .. (self.size - 1) :
                                           self.bitmap[i] # U64_MAX})} } : TRUE
    ELSE IF level = MiB2 THEN alloc_contigous(self, 1, MiB2)
    ELSE Panic(self, "todo")

\* BitmapAllocator::alloc
alloc(self, num_frames, level) ==
    IF num_frames = 1 THEN alloc_single(self, level)
    ELSE alloc_contigous(self, num_frames, level)

\* the bitmap words stored in the frame at page: word w lives at mem_start + 8 * w
WordsStoredIn(self, page) ==
    {w \in 0 .. (self.size - 1) :
        page <= self.mem_start + 8 * w /\ self.mem_start + 8 * w < page + FRAME_SIZE}

\* BitmapAllocator::zero_alloc: alloc, then FRAME_SIZE / 8 zero stores from
\* the returned address (one frame, whatever num_frames is).  The stores hit
\* the bitmap's own words when the frame holds some.  A frame that does not
\* lie inside [mem_start, mem_end) is outside the arena: the stores are
\* undefined behaviour, and the model ends the run there.
zero_alloc(self, num_frames, level) ==
    CHOOSE res \in
        { IF r.panic # NoPanic THEN r
          ELSE IF r.ret + FRAME_SIZE > r.self.mem_end THEN Panic(r.self, "out_of_arena")
          ELSE CHOOSE zeroed \in
                   { IF stored = {} THEN Ok(r.self, r.ret)
                     ELSE Ok(WithBitmap(r.self, [w \in 0 .. (r.self.size - 1) |->
                                IF w \in stored THEN U64_ZERO ELSE r.self.bitmap[w]]),
                             r.ret)
                     : stored \in {WordsStoredIn(r.self, r.ret)} } : TRUE
          : r \in {alloc(self, num_frames, level)} } : TRUE

\* for entry in &mut bitmap[from..][..len]: assert!(*entry == u64::MAX); *entry = 0
\* word by word: the words before the first one that is not all-ones are cleared
FreeWords(self, from, len) ==
    LET bad == {i \in from .. (from + len - 1) : self.bitmap[i] # U64_MAX}
    IN  IF from > self.size \/ len > self.size - from
        THEN Panic(self, "index_out_of_range")
        ELSE IF bad # {}
        THEN Panic(FillRange(self, from, Min(bad), U64_ZERO), "double_free")
        ELSE Ok(FillRange(self, from, from + len, U64_ZERO), 0)

\* BitmapAllocator::dealloc_single
dealloc_single(self, address, level) ==
    LET ib == bitmap_entry_index_bit(self, address)
        index == ib[1]
        bit == ib[2]
    IN  IF level = KiB4
        THEN IF index >= self.size THEN Panic(self, "index_out_of_range")
             ELSE IF bit \notin self.bitmap[index] THEN Panic(self, "double_free")
             ELSE Ok(WithBitmap(self, [self.bitmap EXCEPT ![index] = @ \ {bit}]), 0)
        ELSE IF level = MiB2 THEN FreeWords(self, index, 512)
        ELSE Panic(self, "todo")

\* BitmapAllocator::dealloc_contigous
dealloc_contigous(self, address, size, level) ==
    LET ib == bitmap_entry_index_bit(self, address)
        index == ib[1]
        bit == ib[2]
    IN  IF level = KiB4
        THEN IF size < BITMAP_ENTRY_BITS
             THEN LET mask == RotateLeft(Shl(U64_MAX, size), bit)
                  IN  IF index >= self.size THEN Panic(self, "index_out_of_range")
                      ELSE Ok(WithBitmap(self, [self.bitmap EXCEPT ![index] = @ \cap mask]), 0)
             ELSE IF size = BITMAP_ENTRY_BITS
             THEN IF index >= self.size THEN Panic(self, "index_out_of_range")
                  ELSE Ok(FillRange(self, index, index + 1, U64_ZERO), 0)
             ELSE LET entries_needed == size \div BITMAP_ENTRY_BITS
                      remaining_bits_needed == size % BITMAP_ENTRY_BITS
                      range_end == index + entries_needed
                      words == IF range_end > self.size
                               THEN Panic(self, "index_out_of_range")
                               ELSE FreeWords(self, index, entries_needed)
                  IN  IF words.panic # NoPanic \/ remaining_bits_needed = 0 THEN words
                      ELSE IF range_end >= self.size
                      THEN Panic(words.self, "index_out_of_range")
                      ELSE Ok(WithBitmap(words.self, [words.self.bitmap EXCEPT
                                 ![range_end] = @ \cap Shl(U64_MAX, remaining_bits_needed)]), 0)
        ELSE LET entries == ((LevelSize(level) \div FRAME_SIZE) * size) \div 64
                 num_entries == IF entries > 1 THEN entries ELSE 1
                 end_index == index + num_entries
             IN  FreeWords(self, index, end_index)

\* BitmapAllocator::dealloc
dealloc(self, address, size, level) ==
    IF size = 1 THEN dealloc_single(self, address, level)
    ELSE dealloc_contigous(self, address, size, level)

-----------------------------------------------------------------------------
(* paging.rs.  PageEntryFlags is a u8, here the set of its set bits (0..7). *)

VALID == {0}
READ == {1}
WRITE == {2}
EXECUTE == {3}
USER == {4}
GLOBAL == {5}
ACCESSED == {6}
DIRTY == {7}
READ_WRITE == {1, 2}
READ_EXECUTE == {1, 3}
ACCESSED_DIRTY == {6, 7}

\* PageEntryFlags::contains: self.0 & other.0 != 0
contains(self, other) == self \cap other # {}

\* PageEntryFlags::is_leaf
flags_is_leaf(self) ==
    contains(self, READ) \/ contains(self, WRITE) \/ contains(self, EXECUTE)

\* impl BitOr for PageEntryFlags
BitOr(self, rhs) == self \cup rhs

\* PageEntry: the fields of the 64-bit bitfield.  A zeroed frame holds 512
\* of ZeroEntry.
ZeroEntry ==
    [valid |-> FALSE, read |-> FALSE, write |-> FALSE, execute |-> FALSE,
     user |-> FALSE, global |-> FALSE, accessed |-> FALSE, dirty |-> FALSE,
     ppn0 |-> 0, ppn1 |-> 0, ppn2 |-> 0]

\* PageEntry::is_leaf
is_leaf(entry) == entry.read \/ entry.write \/ entry.execute
\* PageEntry::is_branch
is_branch(entry) == ~is_leaf(entry)
\* PageEntry::is_valid
is_valid(entry) == entry.valid
\* PageEntry::is_invalid
is_invalid(entry) == ~entry.valid

\* PageEntry::set_ppn: the three fields cut out of the address
set_ppn(entry, ppn) ==
    [entry EXCEPT !.ppn0 = (ppn \div 4096) % 512,
                  !.ppn1 = (ppn \div 2097152) % 512,
                  !.ppn2 = (ppn \div 1073741824) % 67108864]

\* PageEntry::get_ppn: the address the three fields put together
get_ppn(entry) ==
    entry.ppn0 * 4096 + entry.ppn1 * 2097152 + entry.ppn2 * 1073741824

\* PageEntry::set_flags
set_flags(entry, flags) ==
    [entry EXCEPT !.valid = contains(flags, VALID),
                  !.read = contains(flags, READ),
                  !.write = contains(flags, WRITE),
                  !.execute = contains(flags, EXECUTE),
                  !.user = contains(flags, USER),
                  !.global = contains(flags, GLOBAL),
                  !.accessed = contains(flags, ACCESSED),
                  !.dirty = contains(flags, DIRTY)]

\* PageEntry::get_type without its Leaf arm: a valid entry is a branch
get_type_leaf_as_branch(entry) ==
    IF is_invalid(entry) THEN "Invalid" ELSE "Branch"

\* PageEntry::get_type: "Invalid", "Leaf" or "Branch" (of get_ppn)
get_type(entry) ==
    IF is_invalid(entry) THEN "Invalid"
    ELSE IF is_leaf(entry) THEN "Leaf"
    ELSE "Branch"

\* The same entry as the 64-bit word #[bitfield(bits = 64)] packs it into:
\* the fields in declaration order from bit 0 up, so the eight flags are
\* bits 0..7, reserved_for_software bits 8..9, ppn0 bits 10..18, ppn1 bits
\* 19..27, ppn2 bits 28..53 and reserved bits 54..63.  A word, like a usize
\* address, is the set of its set bits, so nothing is lost to integer width.

\* a field's getter: the width bits from lo, as a number's bits
Field(word, lo, width) == {b - lo : b \in word \cap (lo .. (lo + width - 1))}

\* a field's setter: the field's bits replaced by value's low width bits
SetField(word, lo, width, value) ==
    (word \ (lo .. (lo + width - 1)))
        \cup {b + lo : b \in value \cap (0 .. (width - 1))}

\* a bool field's setter
SetBit(word, bit, on) == IF on THEN word \cup {bit} ELSE word \ {bit}

\* PageEntry::set_ppn with ppn2 masked to 10 bits instead of 26
PageEntry_set_ppn_short(word, ppn) ==
    SetField(SetField(SetField(word,
        10, 9, Shr(ppn, 12) \cap (0 .. 8)),
        19, 9, Shr(ppn, 21) \cap (0 .. 8)),
        28, 26, Shr(ppn, 30) \cap (0 .. 9))

\* PageEntry::set_ppn on the word: (ppn >> 12) & 0x1ff, (ppn >> 21) & 0x1ff,
\* (ppn >> 30) & 0x3ff_ffff
PageEntry_set_ppn(word, ppn) ==
    SetField(SetField(SetField(word,
        10, 9, Shr(ppn, 12) \cap (0 .. 8)),
        19, 9, Shr(ppn, 21) \cap (0 .. 8)),
        28, 26, Shr(ppn, 30) \cap (0 .. 25))

\* PageEntry::get_ppn on the word
PageEntry_get_ppn(word) ==
    Shl(Field(word, 10, 9), 12) \cup Shl(Field(word, 19, 9), 21)
        \cup Shl(Field(word, 28, 26), 30)

\* PageEntry::set_flags on the word
PageEntry_set_flags(word, flags) ==
    SetBit(SetBit(SetBit(SetBit(SetBit(SetBit(SetBit(SetBit(word,
        0, contains(flags, VALID)),
        1, contains(flags, READ)),
        2, contains(flags, WRITE)),
        3, contains(flags, EXECUTE)),
        4, contains(flags, USER)),
        5, contains(flags, GLOBAL)),
        6, contains(flags, ACCESSED)),
        7, contains(flags, DIRTY))

\* the flag getters valid() .. dirty(), as a PageEntryFlags byte
PageEntry_flags(word) == {b \in 0 .. 7 : Field(word, b, 1) = {0}}

\* the bits of a number below 2^31
ToBits(n) == {b \in 0 .. 30 : (n \div (2 ^ b)) % 2 = 1}

\* into_bytes: the word of an entry kept as a record
into_bytes(entry) ==
    SetField(SetField(SetField(
        {b \in 0 .. 7 : << entry.valid, entry.read, entry.write, entry.execute,
                           entry.user, entry.global, entry.accessed,
                           entry.dirty >>[b + 1]},
        10, 9, ToBits(entry.ppn0)),
        19, 9, ToBits(entry.ppn1)),
        28, 26, ToBits(entry.ppn2))

\* the number whose bits are a, for a below 2^31
FromBits(a) ==
    LET RECURSIVE Sum(_)
        Sum(S) == IF S = {} THEN 0
                  ELSE LET b == CHOOSE x \in S : TRUE
                       IN  (2 ^ b) + Sum(S \ {b})
    IN  Sum(a)

\* from_bytes: the record of the entry a word in memory is read as
from_bytes(word) ==
    [valid |-> 0 \in word, read |-> 1 \in word, write |-> 2 \in word,
     execute |-> 3 \in word, user |-> 4 \in word, global |-> 5 \in word,
     accessed |-> 6 \in word, dirty |-> 7 \in word,
     ppn0 |-> FromBits(Field(word, 10, 9)),
     ppn1 |-> FromBits(Field(word, 19, 9)),
     ppn2 |-> FromBits(Field(word, 28, 26))]

\* PageEntry::extract_vpns: <<VPN[0], VPN[1], VPN[2]>>
extract_vpns(vpn) ==
    << (vpn \div 4096) % 512, (vpn \div 2097152) % 512, (vpn \div 1073741824) % 512 >>

\* PageEntryLevel::top
top == GiB1

\* PageEntryLevel::from_size
from_size(size) ==
    IF size > LevelSize(GiB1) THEN GiB1
    ELSE IF size > LevelSize(MiB2) THEN MiB2
    ELSE KiB4

\* PageEntryLevel::assert_aligned holds
aligned(level, addr) == addr % LevelSize(level) = 0

\* The page tables in the arena.  m maps the address of every frame that was
\* zeroed to hold a table to that table's entries; a table is kept as the
\* function from the indices written so far to their entries, and every
\* other index holds ZeroEntry.
EntryAt(m, table, i) ==
    IF table \in DOMAIN m /\ i \in DOMAIN m[table] THEN m[table][i] ELSE ZeroEntry

WriteEntry(m, table, i, entry) ==
    LET old == IF table \in DOMAIN m THEN m[table] ELSE <<>>
        tbl == [j \in DOMAIN old \cup {i} |-> IF j = i THEN entry ELSE old[j]]
    IN  [a \in DOMAIN m \cup {table} |-> IF a = table THEN tbl ELSE m[a]]

\* the frame at page zeroed: a table of 512 ZeroEntry
ZeroTable(m, page) ==
    [a \in DOMAIN m \cup {page} |-> IF a = page THEN <<>> ELSE m[a]]

PgOk(m, fa, ret) == [mem |-> m, fa |-> fa, ret |-> ret, panic |-> NoPanic]
PgPanic(m, fa, kind) == [mem |-> m, fa |-> fa, ret |-> <<>>, panic |-> kind]

\* map's Invalid arm: the new zeroed table at page, and the entry made a
\* valid branch to it
LinkTable(m, table, vpn, entry, page) ==
    WriteEntry(ZeroTable(m, page), table, vpn,
               set_ppn([entry EXCEPT !.valid = TRUE], page))

RECURSIVE MapWalk(_, _, _, _, _, _, _, _)
\* the loop of map, at table and current_level
MapWalk(m, fa, table, current_level, from_addr, vpns, entry_flags, level) ==
    LET vpn == vpns[current_level + 1]
        entry == EntryAt(m, table, vpn)
        type == get_type(entry)
    IN  IF current_level = level
        THEN IF is_valid(entry) THEN PgPanic(m, fa, "already_mapped")
             ELSE PgOk(WriteEntry(m, table, vpn,
                                  set_ppn(set_flags(entry, entry_flags), from_addr)),
                       fa, <<>>)
        ELSE IF type = "Leaf" THEN PgPanic(m, fa, "through_leaf")
        ELSE IF type = "Branch"
        THEN IF get_ppn(entry) = 0 THEN PgPanic(m, fa, "unwrap_none")
             ELSE IF current_level = KiB4 THEN PgPanic(m, fa, "no_smaller_page")
             ELSE MapWalk(m, fa, get_ppn(entry), current_level - 1,
                          from_addr, vpns, entry_flags, level)
        ELSE \* Invalid: one zero_alloc call, its result named sub
             CHOOSE res \in
                 { IF sub.panic # NoPanic THEN PgPanic(m, sub.self, sub.panic)
                   ELSE IF current_level = KiB4
                   THEN PgPanic(LinkTable(m, table, vpn, entry, sub.ret),
                                sub.self, "no_smaller_page")
                   ELSE MapWalk(LinkTable(m, table, vpn, entry, sub.ret),
                                sub.self, sub.ret, current_level - 1,
                                from_addr, vpns, entry_flags, level)
                   : sub \in {zero_alloc(fa, 1, KiB4)} } : TRUE

\* map without its three asserts
map_unchecked(m, fa, root_table, from_addr, to_addr, entry_flags, level) ==
    MapWalk(m, fa, root_table, top, from_addr, extract_vpns(to_addr),
            entry_flags, level)

\* paging::map(root, from_addr, to_addr, entry_flags, level)
map(m, fa, root_table, from_addr, to_addr, entry_flags, level) ==
    IF ~aligned(level, to_addr) \/ ~aligned(level, from_addr)
    THEN PgPanic(m, fa, "addr_not_aligned")
    ELSE IF ~flags_is_leaf(entry_flags) THEN PgPanic(m, fa, "map_branch")
    ELSE MapWalk(m, fa, root_table, top, from_addr, extract_vpns(to_addr),
                 entry_flags, level)

RECURSIVE TranslateWalk(_, _, _, _)
\* the loop of virtual_to_physical, at table and current_level
TranslateWalk(m, table, current_level, vpns) ==
    LET entry == EntryAt(m, table, vpns[current_level + 1])
        type == get_type(entry)
    IN  IF type = "Leaf" THEN [ret |-> <<"Some", get_ppn(entry)>>, panic |-> NoPanic]
        ELSE IF type = "Invalid" THEN [ret |-> <<>>, panic |-> "todo"]
        ELSE IF get_ppn(entry) = 0 THEN [ret |-> <<>>, panic |-> "unwrap_none"]
        ELSE IF current_level = KiB4 THEN [ret |-> <<>>, panic |-> "no_smaller_page"]
        ELSE TranslateWalk(m, get_ppn(entry), current_level - 1, vpns)

\* paging::virtual_to_physical(root, virtual_addr): <<"Some", addr>> or a panic
virtual_to_physical(m, root_table, virtual_addr) ==
    TranslateWalk(m, root_table, top, extract_vpns(virtual_addr))

\* the indices of table whose entry is valid and a branch, as unmap tests it
BranchSlots(m, table) ==
    {i \in (IF table \in DOMAIN m THEN DOMAIN m[table] ELSE {}) :
        i < PAGE_TABLE_LEN /\ is_valid(m[table][i]) /\ is_branch(m[table][i])}

RECURSIVE UnmapLevel1(_, _, _, _)
\* the inner loop of unmap from index level1 on: every branch of
\* table_level1 has its frame given back as one 4KiB frame
UnmapLevel1(m, fa, table_level1, level1) ==
    LET todo == {i \in BranchSlots(m, table_level1) : i >= level1}
        i == Min(todo)
    IN  IF todo = {} THEN Ok(fa, 0)
        ELSE CHOOSE res \in
                 { IF r.panic # NoPanic THEN r
                   ELSE UnmapLevel1(m, r.self, table_level1, i + 1)
                   : r \in {dealloc(fa, get_ppn(EntryAt(m, table_level1, i)),
                                    1, KiB4)} } : TRUE

RECURSIVE UnmapLevel2(_, _, _, _)
\* the outer loop of unmap from index level2 on
UnmapLevel2(m, fa, table, level2) ==
    LET todo == {i \in BranchSlots(m, table) : i >= level2}
        i == Min(todo)
        ptr_level1 == get_ppn(EntryAt(m, table, i))
    IN  IF todo = {} THEN Ok(fa, 0)
        ELSE IF ptr_level1 = 0 THEN Panic(fa, "unwrap_none")
        ELSE CHOOSE res \in
                 { IF inner.panic # NoPanic THEN inner
                   ELSE CHOOSE after \in
                            { IF r.panic # NoPanic THEN r
                              ELSE UnmapLevel2(m, r.self, table, i + 1)
                              : r \in {dealloc(inner.self, ptr_level1, 1, MiB2)} } : TRUE
                   : inner \in {UnmapLevel1(m, fa, ptr_level1, 0)} } : TRUE

\* paging::unmap(table)
unmap(m, fa, table) == UnmapLevel2(m, fa, table, 0)

\* the page tables after an unmap that reset each BRANCH slot of table
unmap_tables_cleared(m, fa, table) ==
    [a \in DOMAIN m |->
        IF a # table THEN m[a]
        ELSE [i \in DOMAIN m[a] |->
                 IF i \in BranchSlots(m, table) THEN ZeroEntry ELSE m[a][i]]]

\* the page tables after paging::unmap(table): table and table_level1 are
\* only read (entry_level2 and entry_level1 are shared references), and
\* dealloc stores to the bitmap alone
unmap_tables(m, fa, table) == m

\* paging::create_root_table
create_root_table(fa) == zero_alloc(fa, 1, KiB4)

-----------------------------------------------------------------------------
(* memory/mod.rs and consts.rs: the kernel region mapper *)

TEXT_START == 0
TEXT_END == 8192
RODATA_START == 8192
RODATA_END == 16384
DATA_START == 16384
DATA_END == 32768
BSS_START == 32768
BSS_END == 65536
STACK_START == 65536
STACK_END == 131072
HEAP_START == 131072
HEAP_END == 262144

\* align_order: value rounded up to a multiple of 2^order
align_order(value, order) ==
    LET o == (2 ^ order) - 1
    IN  ((value + o) \div (2 ^ order)) * (2 ^ order)

\* usize::ilog2 of a level's page size
LevelLog2(level) == 12 + 9 * level

RECURSIVE MapRange(_, _, _, _, _, _, _)
\* the loop of identity_map_range: addr, addr + page_size, ... below end
MapRange(m, fa, root_table, addr, end, flags, level) ==
    IF addr >= end THEN PgOk(m, fa, <<>>)
    ELSE \* one map call, its result named r
         CHOOSE res \in
             { IF r.panic # NoPanic THEN r
               ELSE MapRange(r.mem, r.fa, root_table, addr + LevelSize(level),
                             end, flags, level)
               : r \in {map(m, fa, root_table, addr, addr, flags, level)} } : TRUE

\* identity_map_range(root, start, end, flags, level)
identity_map_range(m, fa, root_table, start, end, flags, level) ==
    MapRange(m, fa, root_table,
             align_order(start, LevelLog2(level)),
             align_order(end, LevelLog2(level)), flags, level)

\* the macro map_region!(root, start, end, flags)
map_region(m, fa, root_table, start, end, flags) ==
    identity_map_range(m, fa, root_table, start, end,
                       BitOr(flags, ACCESSED_DIRTY), from_size(end - start))

\* the regions map_kernel maps, in its order: <<start, end, flags>>
KernelRegions ==
    << <<TEXT_START, TEXT_END, READ_EXECUTE>>,
       <<RODATA_START, RODATA_END, READ>>,
       <<DATA_START, DATA_END, READ_WRITE>>,
       <<BSS_START, BSS_END, READ_WRITE>>,
       <<STACK_START, STACK_END, READ_WRITE>>,
       <<HEAP_START, HEAP_END, READ_WRITE>> >>

RECURSIVE MapRegionsFrom(_, _, _, _)
\* the map_region! calls of map_kernel from the i-th on
MapRegionsFrom(m, fa, root_table, i) ==
    IF i > Len(KernelRegions) THEN PgOk(m, fa, <<>>)
    ELSE CHOOSE res \in
             { IF r.panic # NoPanic THEN r
               ELSE MapRegionsFrom(r.mem, r.fa, root_table, i + 1)
               : r \in {map_region(m, fa, root_table, KernelRegions[i][1],
                                   KernelRegions[i][2], KernelRegions[i][3])} } : TRUE

\* memory::map_kernel(root)
map_kernel(m, fa, root_table) == MapRegionsFrom(m, fa, root_table, 1)

-----------------------------------------------------------------------------
(* memory/alloc: the kernel heap.  The free list is the sequence of its    *)
(* nodes [addr, size] from head.next on; a node's header lies at addr.     *)

\* mem::size_of::<Node>() and mem::align_of::<Node>(): a usize and a reference
NODE_SIZE == 16
NODE_ALIGN == 8

\* memory::align_up
align_up(value, align) ==
    LET remainder == value % align
    IN  IF remainder = 0 THEN value ELSE value + align - remainder

\* Node::start_addr and Node::end_addr
start_addr(node) == node.addr
end_addr(node) == node.addr + node.size

HeapOk(list, ret) == [list |-> list, ret |-> ret, panic |-> NoPanic]
HeapPanic(list, kind) == [list |-> list, ret |-> 0, panic |-> kind]

\* add_free_region with the new node linked at the tail of the list
add_free_region_at_tail(list, addr, size) ==
    IF align_up(addr, NODE_ALIGN) # addr \/ size < NODE_SIZE
    THEN HeapPanic(list, "assert")
    ELSE HeapOk(Append(list, [addr |-> addr, size |-> size]), 0)

\* LinkedListAllocator::add_free_region: the new node goes to the front
add_free_region(list, addr, size) ==
    IF align_up(addr, NODE_ALIGN) # addr \/ size < NODE_SIZE
    THEN HeapPanic(list, "assert")
    ELSE HeapOk(<<[addr |-> addr, size |-> size]>> \o list, 0)

\* LinkedListAllocator::init
heap_init(list, start, size) == add_free_region(list, start, size)

\* alloc_from_region that takes the region's start without aligning it
alloc_from_region_unaligned(region, size, align) ==
    LET start == start_addr(region)
        end == start + size
        remaining_size == end_addr(region) - end
    IN  IF end > end_addr(region) THEN -1
        ELSE IF remaining_size > 0 /\ remaining_size < NODE_SIZE THEN -1
        ELSE start

\* LinkedListAllocator::alloc_from_region: the start address, or -1 for None
alloc_from_region(region, size, align) ==
    LET start == align_up(start_addr(region), align)
        end == start + size
        remaining_size == end_addr(region) - end
    IN  IF end > end_addr(region) THEN -1
        ELSE IF remaining_size > 0 /\ remaining_size < NODE_SIZE THEN -1
        ELSE start

\* find_region that unlinks the first node when it finds no node that fits
find_region_unlinking(list, size, align) ==
    LET fits == {i \in 1 .. Len(list) : alloc_from_region(list[i], size, align) # -1}
        i == Min(fits)
    IN  IF fits = {}
        THEN [found |-> FALSE,
              list |-> IF list = <<>> THEN list ELSE Tail(list),
              region |-> <<>>, alloc_start |-> 0]
        ELSE [found |-> TRUE,
              list |-> SubSeq(list, 1, i - 1) \o SubSeq(list, i + 1, Len(list)),
              region |-> list[i],
              alloc_start |-> alloc_from_region(list[i], size, align)]

\* find_region that takes the last node that fits instead of the first
find_region_last_fit(list, size, align) ==
    LET fits == {i \in 1 .. Len(list) : alloc_from_region(list[i], size, align) # -1}
        i == Max(fits)
    IN  IF fits = {}
        THEN [found |-> FALSE, list |-> list, region |-> <<>>, alloc_start |-> 0]
        ELSE [found |-> TRUE,
              list |-> SubSeq(list, 1, i - 1) \o SubSeq(list, i + 1, Len(list)),
              region |-> list[i],
              alloc_start |-> alloc_from_region(list[i], size, align)]

\* LinkedListAllocator::find_region: the first node that fits, taken off
\* the list: [found, list, region, alloc_start]
find_region(list, size, align) ==
    LET fits == {i \in 1 .. Len(list) : alloc_from_region(list[i], size, align) # -1}
        i == Min(fits)
    IN  IF fits = {}
        THEN [found |-> FALSE, list |-> list, region |-> <<>>, alloc_start |-> 0]
        ELSE [found |-> TRUE,
              list |-> SubSeq(list, 1, i - 1) \o SubSeq(list, i + 1, Len(list)),
              region |-> list[i],
              alloc_start |-> alloc_from_region(list[i], size, align)]

\* LinkedListAllocator::size_align: <<size, align>> of the adjusted layout
size_align(layout_size, layout_align) ==
    LET align == IF layout_align > NODE_ALIGN THEN layout_align ELSE NODE_ALIGN
        padded == align_up(layout_size, align)
    IN  << IF padded > NODE_SIZE THEN padded ELSE NODE_SIZE, align >>

\* GlobalAlloc::alloc for KernelAllocator<LinkedListAllocator>; ret 0 is null
heap_alloc(list, layout_size, layout_align) ==
    LET sa == size_align(layout_size, layout_align)
        found == find_region(list, sa[1], sa[2])
        end == found.alloc_start + sa[1]
        remaining_size == end_addr(found.region) - end
        rest == add_free_region(found.list, end, remaining_size)
    IN  IF ~found.found THEN HeapOk(found.list, 0)
        ELSE IF remaining_size > 0
        THEN [rest EXCEPT !.ret = IF rest.panic = NoPanic THEN found.alloc_start ELSE 0]
        ELSE HeapOk(found.list, found.alloc_start)

\* dealloc that merges the freed block with a free node that starts where
\* the block ends
heap_dealloc_merging(list, ptr, layout_size, layout_align) ==
    LET size == size_align(layout_size, layout_align)[1]
        after == {i \in 1 .. Len(list) : list[i].addr = ptr + size}
        i == Min(after)
    IN  IF after = {} THEN add_free_region(list, ptr, size)
        ELSE add_free_region(SubSeq(list, 1, i - 1) \o SubSeq(list, i + 1, Len(list)),
                             ptr, size + list[i].size)

\* GlobalAlloc::dealloc for KernelAllocator<LinkedListAllocator>
heap_dealloc(list, ptr, layout_size, layout_align) ==
    add_free_region(list, ptr, size_align(layout_size, layout_align)[1])

\* alloc::init(mem_start, size): the heap starts 1024 bytes into the arena
alloc_init(mem_start, size) == heap_init(<<>>, mem_start + 1024, size)

\* a usize stored at addr: where the frame of addr holds a page table, the
\* entry at that offset now reads as the stored word
StoreWord(m, addr, n) ==
    LET page == addr - (addr % FRAME_SIZE)
    IN  IF page \in DOMAIN m
        THEN WriteEntry(m, page, (addr % FRAME_SIZE) \div 8, from_bytes(ToBits(n)))
        ELSE m

RECURSIVE StoreNodes(_, _, _)
\* the headers of the free list written into the regions they describe
\* (add_free_region's node_ptr.write): size at addr, next at addr + 8, the
\* next of the last node being None, a null pointer
StoreNodes(m, list, i) ==
    IF i > Len(list) THEN m
    ELSE CHOOSE res \in
             { StoreNodes(w, list, i + 1)
               : w \in {StoreWord(StoreWord(m, list[i].addr, list[i].size),
                                  list[i].addr + 8,
                                  IF i < Len(list) THEN list[i + 1].addr ELSE 0)} } : TRUE

-----------------------------------------------------------------------------
(* The calls made so far.  Each entry of hist is                           *)
(*   [op, arg, ret, panic, pre, post]:                                     *)
(* the operation, its arguments, its value, the panic it ended in, and the *)
(* state it read (pre) and left (post).  A panic ends the program.         *)

Call(op, arg, ret, panic, pre, post) ==
    [op |-> op, arg |-> arg, ret |-> ret, panic |-> panic, pre |-> pre, post |-> post]

Panicked == Len(hist) > 0 /\ hist[Len(hist)].panic # NoPanic

-----------------------------------------------------------------------------
(* The frame allocator on its own: init over a region, then alloc and      *)
(* dealloc calls.                                                          *)

\* the most calls in a run of the frame allocator
MaxFrameOps == 4

\* <<start, size>> of the regions init_frames_allocation is given: two frames;
\* 3 MiB that does not start on a 2 MiB boundary; main's 8 MiB
Regions == { <<2097152, 8192>>, <<1835008, 3145728>>, <<2097152, 8388608>> }

\* the frame counts alloc is asked for
AllocCounts == {1, 2, 63, 64, 65}

InitFrames ==
    /\ \E r \in Regions : FRAMES_ALLOCATOR = init_frames_allocation(r[1], r[2])
    /\ mem = <<>>
    /\ root = 0
    /\ ALLOCATOR = <<>>
    /\ hist = <<>>
    /\ lock = 0
    /\ ctx = <<>>
    /\ scheduler = <<>>

\* FRAMES_ALLOCATOR.lock().alloc(num_frames, level)
Alloc(num_frames, level) ==
    /\ ~Panicked
    /\ Len(hist) < MaxFrameOps
    /\ LET r == alloc(FRAMES_ALLOCATOR, num_frames, level)
       IN  /\ FRAMES_ALLOCATOR' = r.self
           /\ hist' = Append(hist, Call("alloc",
                         [num_frames |-> num_frames, level |-> level],
                         r.ret, r.panic, FRAMES_ALLOCATOR.bitmap, r.self.bitmap))
    /\ UNCHANGED <<mem, root, ALLOCATOR, lock, ctx, scheduler>>

\* FRAMES_ALLOCATOR.lock().dealloc(address, size, level), for a range an
\* earlier alloc(size, level) returned (freed or not since)
Dealloc(k) ==
    /\ ~Panicked
    /\ Len(hist) < MaxFrameOps
    /\ hist[k].op \in {"alloc", "zero_alloc"}
    /\ hist[k].panic = NoPanic
    /\ LET r == dealloc(FRAMES_ALLOCATOR, hist[k].ret,
                        hist[k].arg.num_frames, hist[k].arg.level)
       IN  /\ FRAMES_ALLOCATOR' = r.self
           /\ hist' = Append(hist, Call("dealloc",
                         [address |-> hist[k].ret, size |-> hist[k].arg.num_frames,
                          level |-> hist[k].arg.level, of |-> k],
                         r.ret, r.panic, FRAMES_ALLOCATOR.bitmap, r.self.bitmap))
    /\ UNCHANGED <<mem, root, ALLOCATOR, lock, ctx, scheduler>>

NextFrames ==
    \/ \E n \in AllocCounts, level \in PageEntryLevel : Alloc(n, level)
    \/ \E k \in 1 .. Len(hist) : Dealloc(k)

SpecFrames == InitFrames /\ [][NextFrames]_vars

-----------------------------------------------------------------------------
(* Claims about the frame allocator (checked under SpecFrames) *)

IsAlloc(k) == hist[k].op = "alloc" /\ hist[k].panic = NoPanic
IsDealloc(k) == hist[k].op = "dealloc" /\ hist[k].panic = NoPanic

\* the alloc of call k has not been given back by a later dealloc
Live(k) ==
    /\ IsAlloc(k)
    /\ ~\E j \in (k + 1) .. Len(hist) : IsDealloc(j) /\ hist[j].arg.of = k

\* every dealloc so far gave back an allocation that was live when it ran
MatchingDeallocs ==
    \A j \in 1 .. Len(hist) :
        hist[j].op = "dealloc" =>
            ~\E i \in 1 .. (j - 1) : hist[i].op = "dealloc" /\ hist[i].arg.of = hist[j].arg.of

\* [first, last) in bytes of the allocation of call k
RangeStart(k) == hist[k].ret
RangeEnd(k) == hist[k].ret + hist[k].arg.num_frames * LevelSize(hist[k].arg.level)

\* the frames that hold the bitmap's words: 8 bytes a word, whole frames
BitmapStorageEnd ==
    FRAMES_ALLOCATOR.mem_start
        + ((FRAMES_ALLOCATOR.size * 8 + FRAME_SIZE - 1) \div FRAME_SIZE) * FRAME_SIZE

Disjoint(a1, a2, b1, b2) == a2 <= b1 \/ b2 <= a1

\* the panics by which a scan that finds no fit ends
Exhausted == {"no_frames", "unwrap_none"}

\* C5: after successful alloc calls and matching dealloc calls, the ranges
\* of the allocations not yet deallocated are pairwise disjoint and disjoint
\* from the frames that hold the bitmap.
C5_LiveRangesDisjoint ==
    (~Panicked /\ MatchingDeallocs) =>
        \A k1 \in 1 .. Len(hist) :
            Live(k1) =>
                /\ Disjoint(RangeStart(k1), RangeEnd(k1),
                            FRAMES_ALLOCATOR.mem_start, BitmapStorageEnd)
                /\ \A k2 \in 1 .. Len(hist) :
                      (Live(k2) /\ k1 # k2) =>
                          Disjoint(RangeStart(k1), RangeEnd(k1),
                                   RangeStart(k2), RangeEnd(k2))

\* two allocations are live at once
C5_Witness ==
    /\ ~Panicked /\ MatchingDeallocs
    /\ \E k1, k2 \in 1 .. Len(hist) : k1 # k2 /\ Live(k1) /\ Live(k2)

\* C6: every address alloc(1, L) returns is a multiple of L's byte size,
\* in every reachable allocator state and for every region start.
C6_SingleAllocAligned ==
    \A k \in 1 .. Len(hist) :
        (IsAlloc(k) /\ hist[k].arg.num_frames = 1) =>
            hist[k].ret % LevelSize(hist[k].arg.level) = 0

\* alloc(1, 2MiB) and alloc(1, 4KiB) have both returned an address
C6_Witness ==
    /\ \E k \in 1 .. Len(hist) :
          IsAlloc(k) /\ hist[k].arg.num_frames = 1 /\ hist[k].arg.level = MiB2
    /\ \E k \in 1 .. Len(hist) :
          IsAlloc(k) /\ hist[k].arg.num_frames = 1 /\ hist[k].arg.level = KiB4

\* C7: a successful alloc(n, L) followed at once by dealloc(a, n, L)
\* completes without a fatal condition and leaves every bitmap word as it
\* was before the alloc.
C7_AllocDeallocRoundTrip ==
    \A k \in 1 .. (Len(hist) - 1) :
        (IsAlloc(k) /\ hist[k + 1].op = "dealloc" /\ hist[k + 1].arg.of = k) =>
            /\ hist[k + 1].panic = NoPanic
            /\ hist[k + 1].post = hist[k].pre

\* C8: a second dealloc of a range a first dealloc freed, with no alloc in
\* between, ends in the double-free fatal condition.
C8_SecondDeallocIsDoubleFree ==
    \A k \in 1 .. (Len(hist) - 1) :
        (IsDealloc(k) /\ hist[k + 1].op = "dealloc" /\ hist[k + 1].arg = hist[k].arg) =>
            hist[k + 1].panic = "double_free"

\* every frame of [mem_start, mem_end) is marked used in bitmap bm
RegionFull(bm) ==
    LET num_frames == (FRAMES_ALLOCATOR.mem_end - FRAMES_ALLOCATOR.mem_start)
                          \div FRAME_SIZE
    IN  \A f \in 0 .. (num_frames - 1) :
            (f % BITMAP_ENTRY_BITS) \in bm[f \div BITMAP_ENTRY_BITS]

\* C9: every address alloc returns denotes frames inside [start, end), and
\* once every frame of the region is used the next alloc(1, 4KiB) reports
\* exhaustion instead of returning an address.
C9_InsideRegionThenExhausted ==
    \A k \in 1 .. Len(hist) :
        /\ IsAlloc(k) =>
              /\ FRAMES_ALLOCATOR.mem_start <= RangeStart(k)
              /\ RangeEnd(k) <= FRAMES_ALLOCATOR.mem_end
        /\ (hist[k].op = "alloc" /\ hist[k].arg.num_frames = 1
               /\ hist[k].arg.level = KiB4 /\ RegionFull(hist[k].pre)) =>
              hist[k].panic \in Exhausted

\* C12: whenever an alloc or dealloc call ends in a fatal condition, the
\* bitmap is bit for bit what it was before that call.
C12_FatalCallLeavesBitmap ==
    \A k \in 1 .. Len(hist) :
        (hist[k].op \in {"alloc", "dealloc"} /\ hist[k].panic # NoPanic) =>
            hist[k].post = hist[k].pre

-----------------------------------------------------------------------------
(* The page tables: main's init_frames_allocation and create_root_table,   *)
(* then map, map_region!, virtual_to_physical and unmap calls on the root. *)

\* the most calls in a run of the page-table manager
MaxPagingOps == 3

\* main.rs: the arena (its address is the mapping's, any page; its size 8 MiB)
MainMemStart == 2097152
MainMemSize == 8388608

\* the physical addresses, virtual addresses, flags map is called with
MapPhys == {2097152, 1073741824}
MapVirt == {16384, 20480, 1073741824}
MapFlags == {READ_WRITE, BitOr(VALID, READ_WRITE), USER}
\* the addresses virtual_to_physical is asked for
TranslateVirt == MapVirt \cup {20480, 24576, 28672, 2097152}
\* the kernel regions map_region! is called for one at a time
MappedRegions == {2, 3}

PagingState == [mem |-> mem, bitmap |-> FRAMES_ALLOCATOR.bitmap]

InitPaging ==
    /\ LET fa == init_frames_allocation(MainMemStart, MainMemSize)
           r == create_root_table(fa)
       IN  /\ FRAMES_ALLOCATOR = r.self
           /\ root = r.ret
           /\ mem = ZeroTable(<<>>, r.ret)
    /\ ALLOCATOR = <<>>
    /\ hist = <<>>
    /\ lock = 0
    /\ ctx = <<>>
    /\ scheduler = <<>>

\* paging::map(root, from_addr, to_addr, &entry_flags, level)
Map(from_addr, to_addr, entry_flags, level) ==
    /\ ~Panicked
    /\ Len(hist) < MaxPagingOps
    /\ \E r \in {map(mem, FRAMES_ALLOCATOR, root, from_addr, to_addr, entry_flags, level)} :
           /\ mem' = r.mem
           /\ FRAMES_ALLOCATOR' = r.fa
           /\ hist' = Append(hist, Call("map",
                         [from_addr |-> from_addr, to_addr |-> to_addr,
                          entry_flags |-> entry_flags, level |-> level],
                         r.ret, r.panic, PagingState,
                         [mem |-> r.mem, bitmap |-> r.fa.bitmap]))
    /\ UNCHANGED <<root, ALLOCATOR, lock, ctx, scheduler>>

\* map_region!(root, start, end, flags), for a region of map_kernel
MapRegion(i) ==
    /\ ~Panicked
    /\ Len(hist) < MaxPagingOps
    /\ \E reg \in {KernelRegions[i]} :
       \E r \in {map_region(mem, FRAMES_ALLOCATOR, root, reg[1], reg[2], reg[3])} :
           /\ mem' = r.mem
           /\ FRAMES_ALLOCATOR' = r.fa
           /\ hist' = Append(hist, Call("map_region",
                         [start |-> reg[1], end |-> reg[2], flags |-> reg[3]],
                         r.ret, r.panic, PagingState,
                         [mem |-> r.mem, bitmap |-> r.fa.bitmap]))
    /\ UNCHANGED <<root, ALLOCATOR, lock, ctx, scheduler>>

\* paging::virtual_to_physical(root, virtual_addr)
VirtualToPhysical(virtual_addr) ==
    /\ ~Panicked
    /\ Len(hist) < MaxPagingOps
    /\ \E r \in {virtual_to_physical(mem, root, virtual_addr)} :
           hist' = Append(hist, Call("virtual_to_physical",
                         [virtual_addr |-> virtual_addr],
                         r.ret, r.panic, PagingState, PagingState))
    /\ UNCHANGED <<FRAMES_ALLOCATOR, mem, root, ALLOCATOR, lock, ctx, scheduler>>

\* paging::unmap(root)
Unmap ==
    /\ ~Panicked
    /\ Len(hist) < MaxPagingOps
    /\ \E r \in {unmap(mem, FRAMES_ALLOCATOR, root)},
          m \in {unmap_tables(mem, FRAMES_ALLOCATOR, root)} :
           /\ FRAMES_ALLOCATOR' = r.self
           /\ mem' = m
           /\ hist' = Append(hist, Call("unmap", [table |-> root],
                         <<>>, r.panic, PagingState,
                         [mem |-> m, bitmap |-> r.self.bitmap]))
    /\ UNCHANGED <<root, ALLOCATOR, lock, ctx, scheduler>>

NextPaging ==
    \/ \E pa \in MapPhys, va \in MapVirt, f \in MapFlags, level \in PageEntryLevel :
          Map(pa, va, f, level)
    \/ \E i \in MappedRegions : MapRegion(i)
    \/ \E va \in TranslateVirt : VirtualToPhysical(va)
    \/ Unmap

SpecPaging == InitPaging /\ [][NextPaging]_vars

-----------------------------------------------------------------------------
(* The kernel heap on its own: alloc::init, then alloc and dealloc calls.  *)

\* the most calls in a run of the heap
MaxHeapOps == 4

\* <<mem_start, size>> given to alloc::init: main's (the arena less 4096
\* bytes), and a heap of two pages
HeapRegions == { <<MainMemStart, MainMemSize - 4096>>, <<MainMemStart, 8192>> }

\* the layouts asked for: <<size, align>>
Layouts == { <<4096, 8>>, <<8, 1>>, <<24, 64>>, <<4096, 4096>> }

InitHeap ==
    /\ \E r \in HeapRegions : ALLOCATOR = alloc_init(r[1], r[2]).list
    /\ FRAMES_ALLOCATOR = new
    /\ mem = <<>>
    /\ root = 0
    /\ hist = <<>>
    /\ lock = 0
    /\ ctx = <<>>
    /\ scheduler = <<>>

\* ALLOCATOR.alloc(layout)
HeapAlloc(layout) ==
    /\ ~Panicked
    /\ Len(hist) < MaxHeapOps
    /\ LET r == heap_alloc(ALLOCATOR, layout[1], layout[2])
       IN  /\ ALLOCATOR' = r.list
           /\ hist' = Append(hist, Call("heap_alloc",
                         [size |-> layout[1], align |-> layout[2]],
                         r.ret, r.panic, ALLOCATOR, r.list))
           /\ mem' = StoreNodes(mem, r.list, 1)
    /\ UNCHANGED <<FRAMES_ALLOCATOR, root, lock, ctx, scheduler>>

\* ALLOCATOR.dealloc(ptr, layout), for a block an earlier alloc(layout) returned
HeapDealloc(k) ==
    /\ ~Panicked
    /\ Len(hist) < MaxHeapOps
    /\ hist[k].op = "heap_alloc"
    /\ hist[k].panic = NoPanic
    /\ hist[k].ret # 0
    /\ LET r == heap_dealloc(ALLOCATOR, hist[k].ret, hist[k].arg.size, hist[k].arg.align)
       IN  /\ ALLOCATOR' = r.list
           /\ hist' = Append(hist, Call("heap_dealloc",
                         [ptr |-> hist[k].ret, size |-> hist[k].arg.size,
                          align |-> hist[k].arg.align, of |-> k],
                         r.ret, r.panic, ALLOCATOR, r.list))
           /\ mem' = StoreNodes(mem, r.list, 1)
    /\ UNCHANGED <<FRAMES_ALLOCATOR, root, lock, ctx, scheduler>>

NextHeap ==
    \/ \E layout \in Layouts : HeapAlloc(layout)
    \/ \E k \in 1 .. Len(hist) : HeapDealloc(k)

SpecHeap == InitHeap /\ [][NextHeap]_vars

-----------------------------------------------------------------------------
(* Claims about the page tables (checked under SpecPaging) *)

IsMap(k) == hist[k].op = "map" /\ hist[k].panic = NoPanic
IsTranslate(k) == hist[k].op = "virtual_to_physical"

\* C1: a successful map(root, pa, va, flags, level), for any level and any
\* flags map accepts, followed by virtual_to_physical(root, va) returns pa.
C1_MapThenTranslate ==
    \A k \in 1 .. (Len(hist) - 1) :
        (IsMap(k) /\ IsTranslate(k + 1)
             /\ hist[k + 1].arg.virtual_addr = hist[k].arg.to_addr) =>
            /\ hist[k + 1].panic = NoPanic
            /\ hist[k + 1].ret = <<"Some", hist[k].arg.from_addr>>

\* C2: a second map of the same virtual address at the same level, after a
\* first successful map, ends in the already-mapped fatal condition and
\* leaves the page tables as they were.
C2_SecondMapAlreadyMapped ==
    \A k \in 1 .. (Len(hist) - 1) :
        (IsMap(k) /\ hist[k + 1].op = "map"
             /\ hist[k + 1].arg.to_addr = hist[k].arg.to_addr
             /\ hist[k + 1].arg.level = hist[k].arg.level
             /\ aligned(hist[k + 1].arg.level, hist[k + 1].arg.from_addr)
             /\ flags_is_leaf(hist[k + 1].arg.entry_flags)) =>
            /\ hist[k + 1].panic = "already_mapped"
            /\ hist[k + 1].post = hist[k + 1].pre

\* C3: after map_region! of [0x4000, 0x8000) with READ_WRITE,
\* virtual_to_physical(root, a) returns a for every 4KiB-aligned a in it.
C3_DataRegionIdentity ==
    \A k \in 1 .. Len(hist) : \A j \in (k + 1) .. Len(hist) :
        (hist[k].op = "map_region" /\ hist[k].panic = NoPanic
             /\ hist[k].arg.start = DATA_START /\ hist[k].arg.end = DATA_END
             /\ hist[k].arg.flags = READ_WRITE
             /\ IsTranslate(j)
             /\ hist[j].arg.virtual_addr >= DATA_START
             /\ hist[j].arg.virtual_addr < DATA_END
             /\ hist[j].arg.virtual_addr % FRAME_SIZE = 0) =>
            /\ hist[j].panic = NoPanic
            /\ hist[j].ret = <<"Some", hist[j].arg.virtual_addr>>

RECURSIVE MeetsEmpty(_, _, _, _)
\* the walk for vpns from table at level meets an invalid entry before a leaf
MeetsEmpty(m, table, level, vpns) ==
    LET entry == EntryAt(m, table, vpns[level + 1])
    IN  IF ~entry.valid THEN TRUE
        ELSE IF entry.read \/ entry.write \/ entry.execute THEN FALSE
        ELSE IF level = KiB4 THEN FALSE
        ELSE MeetsEmpty(m, get_ppn(entry), level - 1, vpns)

\* C4: virtual_to_physical returns the empty result, and no fatal condition,
\* whenever the walk meets an EMPTY slot before a leaf.
C4_TranslateUnmappedIsNone ==
    \A k \in 1 .. Len(hist) :
        (IsTranslate(k)
             /\ MeetsEmpty(hist[k].pre.mem, root, top,
                           extract_vpns(hist[k].arg.virtual_addr))) =>
            /\ hist[k].panic = NoPanic
            /\ hist[k].ret = <<"None">>

-----------------------------------------------------------------------------
(* Claims about the kernel heap (checked under SpecHeap) *)

\* allocate(4096, 8) on the fresh heap, then deallocate of its block
AllocThenFree ==
    /\ Len(hist) = 2
    /\ hist[1].op = "heap_alloc" /\ hist[1].ret # 0
    /\ hist[1].arg = [size |-> 4096, align |-> 8]
    /\ hist[2].op = "heap_dealloc" /\ hist[2].arg.of = 1
    /\ hist[2].panic = NoPanic

\* C10 as stated: allocate(4096, 8) then deallocate on a fresh heap leaves
\* the free list as one node spanning the original region.
C10_OneNodeAfterRoundTrip ==
    AllocThenFree => ALLOCATOR = hist[1].pre

\* C10 as amended: on a fresh heap larger than the block, allocate(4096, 8)
\* then deallocate leaves two nodes, the freed block {address, 4096} at the
\* head and the unmerged rest of the region behind it; together they cover
\* the original region.
C10_TwoNodesAfterRoundTrip ==
    AllocThenFree =>
        /\ Len(hist[1].pre) = 1
        /\ hist[1].ret = hist[1].pre[1].addr
        /\ ALLOCATOR = << [addr |-> hist[1].ret, size |-> 4096],
                          [addr |-> hist[1].ret + 4096,
                           size |-> hist[1].pre[1].size - 4096] >>

C10_Witness == AllocThenFree

\* the map call k was given an address that is no multiple of its level's
\* page size, or flags with none of read, write and execute
BadMapCall(k) ==
    /\ hist[k].op = "map"
    /\ \/ hist[k].arg.from_addr % (4096 * (512 ^ hist[k].arg.level)) # 0
       \/ hist[k].arg.to_addr % (4096 * (512 ^ hist[k].arg.level)) # 0
       \/ hist[k].arg.entry_flags \cap (1 .. 3) = {}

\* C17: a map call with a physical or virtual address not aligned to its
\* level's page size, or with flags setting none of read, write and
\* execute, ends in a fatal condition with every page-table entry and
\* every bitmap bit as it was before the call.
C17_BadMapChangesNothing ==
    \A k \in 1 .. Len(hist) :
        BadMapCall(k) =>
            /\ hist[k].panic # NoPanic
            /\ hist[k].post = hist[k].pre
            /\ k = Len(hist) => PagingState = hist[k].pre

\* after a map that went through, a map with an unaligned address ended in
\* a fatal condition
C17_Witness ==
    /\ Len(hist) = 2
    /\ hist[1].op = "map" /\ hist[1].panic = NoPanic
    /\ BadMapCall(2)
    /\ hist[2].arg.entry_flags \cap (1 .. 3) # {}
    /\ hist[2].panic # NoPanic

\* a free node qualifies for a request of size bytes aligned to align: the
\* window from the first aligned address at or after its start fits inside
\* it and leaves no tail or a tail that can hold a node header
Qualifies(node, size, align) ==
    LET first == ((node.addr + align - 1) \div align) * align
        tail == node.addr + node.size - (first + size)
    IN  tail = 0 \/ tail >= NODE_SIZE

\* the request of heap call k, rounded up to a node header's size and alignment
Request(k) ==
    LET align == Max({hist[k].arg.align, NODE_ALIGN})
    IN  << Max({((hist[k].arg.size + align - 1) \div align) * align, NODE_SIZE}), align >>

\* C16: a heap alloc made when no node of the free list qualifies returns
\* null, ends in no fatal condition, and leaves the free list as it was:
\* the same nodes with the same sizes in the same order.
C16_NoFitReturnsNull ==
    \A k \in 1 .. Len(hist) :
        (/\ hist[k].op = "heap_alloc"
         /\ \A i \in 1 .. Len(hist[k].pre) :
                ~Qualifies(hist[k].pre[i], Request(k)[1], Request(k)[2])) =>
            /\ hist[k].ret = 0
            /\ hist[k].panic = NoPanic
            /\ hist[k].post = hist[k].pre
            /\ k = Len(hist) => ALLOCATOR = hist[k].pre

\* a heap alloc found a free list of at least one node, none qualifying
C16_Witness ==
    \E k \in 1 .. Len(hist) :
        /\ hist[k].op = "heap_alloc"
        /\ hist[k].pre # <<>>
        /\ \A i \in 1 .. Len(hist[k].pre) :
               ~Qualifies(hist[k].pre[i], Request(k)[1], Request(k)[2])
        /\ hist[k].ret = 0

-----------------------------------------------------------------------------
(* The frame allocator with the frames in use: init over a region, then    *)
(* alloc, zero_alloc and dealloc calls, and stores into frames handed out. *)
(* mem holds what was stored: a frame absent from mem, or whose entries    *)
(* are all ZeroEntry, is all zero bytes, as the arena is at start-up       *)
(* (virt.rs fills mem.img with zeros).                                     *)

\* <<start, size>> of the regions: main's 8 MiB, and 3 MiB that does not
\* start on a 2 MiB boundary
UseRegions == { <<2097152, 8388608>>, <<1835008, 3145728>> }

\* the frame counts alloc and zero_alloc are asked for
UseCounts == {1, 2}

InitFrameUse ==
    /\ \E r \in UseRegions : FRAMES_ALLOCATOR = init_frames_allocation(r[1], r[2])
    /\ mem = <<>>
    /\ root = 0
    /\ ALLOCATOR = <<>>
    /\ hist = <<>>
    /\ lock = 0
    /\ ctx = <<>>
    /\ scheduler = <<>>

\* FRAMES_ALLOCATOR.lock().zero_alloc(num_frames, level)
ZeroAlloc(num_frames, level) ==
    /\ ~Panicked
    /\ Len(hist) < MaxFrameOps
    /\ \E r \in {zero_alloc(FRAMES_ALLOCATOR, num_frames, level)} :
           /\ FRAMES_ALLOCATOR' = r.self
           /\ mem' = IF r.panic = NoPanic THEN ZeroTable(mem, r.ret) ELSE mem
           /\ hist' = Append(hist, Call("zero_alloc",
                         [num_frames |-> num_frames, level |-> level],
                         r.ret, r.panic, FRAMES_ALLOCATOR.bitmap, r.self.bitmap))
    /\ UNCHANGED <<root, ALLOCATOR, lock, ctx, scheduler>>

\* the holder of the range call k returned, not given back since, stores a
\* valid branch entry at the start of one of its frames, as map does in a
\* table it was handed; a frame that holds bitmap words has its first
\* word overwritten.  The frame is the range's first, or its last.
Store(k, last) ==
    /\ ~Panicked
    /\ Len(hist) < MaxFrameOps
    /\ hist[k].op \in {"alloc", "zero_alloc"}
    /\ hist[k].panic = NoPanic
    /\ ~\E j \in (k + 1) .. Len(hist) : hist[j].op = "dealloc" /\ hist[j].arg.of = k
    /\ \E frame \in {IF last
                      THEN hist[k].ret + hist[k].arg.num_frames
                               * LevelSize(hist[k].arg.level) - FRAME_SIZE
                      ELSE hist[k].ret} :
       \E entry \in {set_ppn([ZeroEntry EXCEPT !.valid = TRUE], frame)} :
       \E w \in {(frame - FRAMES_ALLOCATOR.mem_start) \div 8} :
           /\ mem' = WriteEntry(mem, frame, 0, entry)
           /\ FRAMES_ALLOCATOR' =
                  IF w \in DOMAIN FRAMES_ALLOCATOR.bitmap
                  THEN WithBitmap(FRAMES_ALLOCATOR,
                          [FRAMES_ALLOCATOR.bitmap EXCEPT ![w] = into_bytes(entry)])
                  ELSE FRAMES_ALLOCATOR
           /\ hist' = Append(hist, Call("store", [frame |-> frame, of |-> k],
                         0, NoPanic, FRAMES_ALLOCATOR.bitmap,
                         FRAMES_ALLOCATOR'.bitmap))
    /\ UNCHANGED <<root, ALLOCATOR, lock, ctx, scheduler>>

NextFrameUse ==
    \/ \E n \in UseCounts, level \in PageEntryLevel : Alloc(n, level)
    \/ \E n \in UseCounts, level \in PageEntryLevel : ZeroAlloc(n, level)
    \/ \E k \in 1 .. Len(hist), last \in BOOLEAN : Store(k, last)
    \/ \E k \in 1 .. Len(hist) : Dealloc(k)

SpecFrameUse == InitFrameUse /\ [][NextFrameUse]_vars

-----------------------------------------------------------------------------
(* The frame allocator just initialised: init over regions of many sizes,  *)
(* then alloc calls.                                                       *)

\* the most calls after init
MaxInitOps == 1

\* <<start, size>> of the regions: 1, 2, 64 and 65 frames; 3 MiB off a
\* 2 MiB boundary; main's 8 MiB; 128 MiB less a frame, the largest region
\* whose bitmap (512 words) fits one frame; 128 MiB, whose bitmap (513
\* words) does not
InitRegions ==
    { <<2097152, 4096>>, <<2097152, 8192>>, <<2097152, 262144>>,
      <<2097152, 266240>>, <<1835008, 3145728>>, <<2097152, 8388608>>,
      <<2097152, 134213632>>, <<2097152, 134217728>> }

InitInit ==
    /\ \E r \in InitRegions : FRAMES_ALLOCATOR = init_frames_allocation(r[1], r[2])
    /\ mem = <<>>
    /\ root = 0
    /\ ALLOCATOR = <<>>
    /\ hist = <<>>
    /\ lock = 0
    /\ ctx = <<>>
    /\ scheduler = <<>>

NextInit ==
    /\ Len(hist) < MaxInitOps
    /\ \E n \in AllocCounts, level \in PageEntryLevel : Alloc(n, level)

SpecInit == InitInit /\ [][NextInit]_vars

-----------------------------------------------------------------------------
(* Claims about the bitmap and the frames (checked under SpecInit and      *)
(* SpecFrameUse)                                                           *)

IsZeroAlloc(k) == hist[k].op = "zero_alloc" /\ hist[k].panic = NoPanic

\* the range call k returned is held: handed out by alloc or zero_alloc and
\* not given back since
Owned(k) ==
    /\ IsAlloc(k) \/ IsZeroAlloc(k)
    /\ ~\E j \in (k + 1) .. Len(hist) : IsDealloc(j) /\ hist[j].arg.of = k

\* the 4KiB frame number f of the region lies in the bitmap's own storage
\* or in a range that is held
FrameInUse(f) ==
    LET addr == FRAMES_ALLOCATOR.mem_start + f * FRAME_SIZE
    IN  \/ addr < BitmapStorageEnd
        \/ \E k \in 1 .. Len(hist) :
              Owned(k) /\ RangeStart(k) <= addr /\ addr < RangeEnd(k)

\* C11: in every state reached by init, alloc, zero_alloc and matching
\* dealloc calls, a bitmap bit is 1 exactly when its 4KiB frame belongs to
\* the bitmap's own storage or to an allocation not yet deallocated (so
\* every bit under a live 2MiB allocation is 1).
C11_BitIffFrameInUse ==
    (~Panicked /\ MatchingDeallocs) =>
        \A w \in DOMAIN FRAMES_ALLOCATOR.bitmap :
            FRAMES_ALLOCATOR.bitmap[w]
                = {b \in Bits : FrameInUse(BITMAP_ENTRY_BITS * w + b)}

\* C19: after init, for every region size, every bitmap bit is 0 except
\* the bits of the frames that overlap the bitmap's own storage, which are
\* 1, and no later alloc returns a frame that holds bitmap words.
C19_InitMarksBitmapFrames ==
    /\ hist = <<>> =>
          \A w \in DOMAIN FRAMES_ALLOCATOR.bitmap :
              FRAMES_ALLOCATOR.bitmap[w]
                  = {b \in Bits :
                        FRAMES_ALLOCATOR.mem_start
                            + (BITMAP_ENTRY_BITS * w + b) * FRAME_SIZE
                                < BitmapStorageEnd}
    /\ \A k \in 1 .. Len(hist) :
          IsAlloc(k) =>
              Disjoint(RangeStart(k), RangeEnd(k),
                       FRAMES_ALLOCATOR.mem_start, BitmapStorageEnd)

\* every byte of the 4KiB frame at addr is zero
FrameIsZero(addr) ==
    addr \in DOMAIN mem => \A i \in DOMAIN mem[addr] : mem[addr][i] = ZeroEntry

\* C18: zero_alloc(count, L) marks and returns the range alloc(count, L)
\* would, and on return every byte of the range is zero, for every count
\* and size class.
C18_ZeroAllocZeroesRange ==
    (Len(hist) > 0 /\ IsZeroAlloc(Len(hist))) =>
        LET k == Len(hist)
            a == alloc(WithBitmap(FRAMES_ALLOCATOR, hist[k].pre),
                       hist[k].arg.num_frames, hist[k].arg.level)
        IN  /\ a.panic = NoPanic
            /\ hist[k].ret = a.ret
            /\ hist[k].post = a.self.bitmap
            /\ \A f \in 0 .. ((RangeEnd(k) - RangeStart(k)) \div FRAME_SIZE - 1) :
                   FrameIsZero(RangeStart(k) + f * FRAME_SIZE)

-----------------------------------------------------------------------------
(* A page-table entry on its own: set_flags and set_ppn on an entry, a     *)
(* fresh one (PageEntry::new(), all zero) or the one the last call left.   *)

\* the most calls in a run of the entry
MaxEntryOps == 2

\* the flags bytes an entry is given
EntryFlags ==
    { {}, BitOr(VALID, READ_WRITE), BitOr(READ_EXECUTE, BitOr(USER, ACCESSED)),
      0 .. 7 }

\* the physical addresses an entry is given, as the bits of a usize: 4KiB
\* aligned and below 2^56, with the first and last bit of each field
EntryAddrs ==
    { {}, {12}, {55}, {12, 21, 30}, {20, 29, 55}, {31, 40}, 12 .. 55 }

InitEntry ==
    /\ FRAMES_ALLOCATOR = new
    /\ mem = <<>>
    /\ root = 0
    /\ ALLOCATOR = <<>>
    /\ hist = <<>>
    /\ lock = 0
    /\ ctx = <<>>
    /\ scheduler = <<>>

\* entry.set_flags(flags); entry.set_ppn(ppn), as map does on a leaf, then
\* the entry read back through its getters
SetEntry(flags, ppn) ==
    /\ Len(hist) < MaxEntryOps
    /\ \E word \in {IF hist = <<>> THEN U64_ZERO ELSE hist[Len(hist)].post} :
       \E set \in {PageEntry_set_ppn(PageEntry_set_flags(word, flags), ppn)} :
           hist' = Append(hist, Call("set_entry", [flags |-> flags, ppn |-> ppn],
                       <<PageEntry_flags(set), PageEntry_get_ppn(set)>>,
                       NoPanic, word, set))
    /\ UNCHANGED <<FRAMES_ALLOCATOR, mem, root, ALLOCATOR, lock, ctx, scheduler>>

NextEntry == \E flags \in EntryFlags, ppn \in EntryAddrs : SetEntry(flags, ppn)

SpecEntry == InitEntry /\ [][NextEntry]_vars

\* C13: an entry encoded from a flags byte and a 4KiB-aligned address below
\* 2^56 has the eight flags at bits 0..7, address bits [12,21) at bits
\* [10,19), address bits [21,30) at bits [19,28), address bits [30,56) at
\* bits [28,54) and every reserved bit zero; decoding it gives back the
\* same flags and the same address.  Where the address is below 2^31 the
\* record kept in the page tables packs into the same word.
C13_EntryLayoutRoundTrip ==
    \A k \in 1 .. Len(hist) :
        hist[k].op = "set_entry" =>
            LET word == hist[k].post
                flags == hist[k].arg.flags
                ppn == hist[k].arg.ppn
            IN  /\ word \cap (0 .. 7) = flags
                /\ \A i \in 0 .. 8 : (10 + i \in word) <=> (12 + i \in ppn)
                /\ \A i \in 0 .. 8 : (19 + i \in word) <=> (21 + i \in ppn)
                /\ \A i \in 0 .. 25 : (28 + i \in word) <=> (30 + i \in ppn)
                /\ word \cap ((8 .. 9) \cup (54 .. 63)) = {}
                /\ hist[k].ret = <<flags, ppn>>
                /\ (ppn \subseteq 0 .. 30) =>
                       into_bytes(set_ppn(set_flags(ZeroEntry, flags),
                                          FromBits(ppn))) = word

\* an entry with every flag and every address bit set was written over an
\* earlier entry
C13_Witness ==
    /\ Len(hist) = 2
    /\ hist[1].post # U64_ZERO
    /\ hist[2].arg = [flags |-> 0 .. 7, ppn |-> 12 .. 55]

-----------------------------------------------------------------------------
(* The kernel after main: init_frames_allocation, create_root_table,       *)
(* map_kernel and alloc::init over the one arena, then calls on the heap   *)
(* and on the frame allocator.                                             *)

\* the state main leaves the frame allocator and the page tables in
main ==
    CHOOSE res \in
        { map_kernel(ZeroTable(<<>>, r.ret), r.self, r.ret)
          : r \in {create_root_table(init_frames_allocation(MainMemStart, MainMemSize))} } : TRUE

\* the root table main created
main_root_table == create_root_table(init_frames_allocation(MainMemStart, MainMemSize)).ret

\* [HeapFirst, HeapLast): the bytes main hands to alloc::init
HeapFirst == alloc_init(MainMemStart, MainMemSize - 4096).list[1].addr
HeapLast == HeapFirst + alloc_init(MainMemStart, MainMemSize - 4096).list[1].size

InitMain ==
    /\ FRAMES_ALLOCATOR = main.fa
    /\ root = main_root_table
    /\ ALLOCATOR = alloc_init(MainMemStart, MainMemSize - 4096).list
    /\ mem = StoreNodes(main.mem, ALLOCATOR, 1)
    /\ hist = <<>>
    /\ lock = 0
    /\ ctx = <<>>
    /\ scheduler = <<>>

NextMain ==
    \/ \E layout \in Layouts : HeapAlloc(layout)
    \/ \E k \in 1 .. Len(hist) : HeapDealloc(k)
    \/ \E n \in UseCounts : Alloc(n, KiB4)
    \/ \E k \in 1 .. Len(hist) : Dealloc(k)

SpecMain == InitMain /\ [][NextMain]_vars

\* the 4KiB frames the frame allocator has marked used
MarkedFrames ==
    UNION { { FRAMES_ALLOCATOR.mem_start + (BITMAP_ENTRY_BITS * w + b) * FRAME_SIZE
              : b \in FRAMES_ALLOCATOR.bitmap[w] }
            : w \in DOMAIN FRAMES_ALLOCATOR.bitmap }

\* C14: the bytes handed to the heap at start-up are disjoint from every
\* frame the frame allocator has marked used or handed out (the bitmap's
\* storage, the root table, the interior tables), and no block the heap
\* returns overlaps such a frame.
C14_HeapDisjointFromFrames ==
    /\ \A f \in MarkedFrames : Disjoint(HeapFirst, HeapLast, f, f + FRAME_SIZE)
    /\ \A k \in 1 .. Len(hist) :
           (hist[k].op = "heap_alloc" /\ hist[k].panic = NoPanic /\ hist[k].ret # 0) =>
               \A f \in MarkedFrames \cup DOMAIN mem :
                   Disjoint(hist[k].ret,
                            hist[k].ret + size_align(hist[k].arg.size, hist[k].arg.align)[1],
                            f, f + FRAME_SIZE)

-----------------------------------------------------------------------------
(* Two execution contexts calling FRAMES_ALLOCATOR.lock().alloc(..) and    *)
(* FRAMES_ALLOCATOR.lock().dealloc(..).  lock is the context that holds    *)
(* the spin lock (0: none); ctx gives each context its place in its call:  *)
(* "idle", "waiting" for the lock, "locked", "read" (the bitmap read and   *)
(* the outcome computed), "written" (the bitmap words stored).             *)

\* the most calls in a run of the two contexts
MaxConcOps == 4

Contexts == {1, 2}

\* <<start, size>> of the region and the frame counts asked for
ConcRegions == { <<1835008, 3145728>> }
ConcCounts == {63, 65}

Idle == [pc |-> "idle", op |-> "", arg |-> <<>>, id |-> 0, with |-> {},
         snap |-> <<>>, res |-> <<>>]

\* the calls begun and not yet in hist
InFlight == {c \in Contexts : ctx[c].pc \in {"waiting", "locked", "read"}}

InitConc ==
    /\ \E r \in ConcRegions : FRAMES_ALLOCATOR = init_frames_allocation(r[1], r[2])
    /\ mem = <<>>
    /\ root = 0
    /\ ALLOCATOR = <<>>
    /\ hist = <<>>
    /\ lock = 0
    /\ ctx = [c \in Contexts |-> Idle]
    /\ scheduler = <<>>

\* context c begins the call op(arg): it is given the next call number and
\* notes the calls of the other contexts that have not returned yet
Begin(c, op, arg) ==
    /\ ~Panicked
    /\ ctx[c].pc = "idle"
    /\ Len(hist) + Cardinality(InFlight) < MaxConcOps
    /\ ctx' = [ctx EXCEPT ![c] =
                  [Idle EXCEPT !.pc = "waiting", !.op = op, !.arg = arg,
                               !.id = Len(hist) + Cardinality(InFlight) + 1,
                               !.with = {ctx[d].id : d \in {e \in Contexts :
                                                            ctx[e].pc # "idle"}}]]
    /\ UNCHANGED <<FRAMES_ALLOCATOR, mem, root, ALLOCATOR, hist, lock, scheduler>>

\* context c calls alloc(num_frames, level)
BeginAlloc(c, num_frames, level) ==
    Begin(c, "alloc", [num_frames |-> num_frames, level |-> level])

\* context c calls dealloc for the range call k returned, which no dealloc
\* was called for yet
BeginDealloc(c, k) ==
    /\ k \in 1 .. Len(hist)
    /\ hist[k].op = "alloc" /\ hist[k].panic = NoPanic
    /\ ~\E j \in 1 .. Len(hist) : hist[j].op = "dealloc" /\ hist[j].arg.of = k
    /\ ~\E d \in Contexts : ctx[d].op = "dealloc" /\ ctx[d].arg.of = k
    /\ Begin(c, "dealloc", [address |-> hist[k].ret, size |-> hist[k].arg.num_frames,
                            level |-> hist[k].arg.level, of |-> k])

\* the compare-exchange of SpinMutex::lock succeeds: the lock is free
compare_exchange(held) == held = 0

\* SpinMutex::lock: context c leaves the spin loop holding the lock
Lock(c) ==
    /\ ~Panicked
    /\ ctx[c].pc = "waiting"
    /\ compare_exchange(lock)
    /\ lock' = c
    /\ ctx' = [ctx EXCEPT ![c].pc = "locked"]
    /\ UNCHANGED <<FRAMES_ALLOCATOR, mem, root, ALLOCATOR, hist, scheduler>>

\* the call of context c reads the bitmap and computes what to store
ReadBitmap(c) ==
    /\ ~Panicked
    /\ ctx[c].pc = "locked"
    /\ \E r \in { IF ctx[c].op = "alloc"
                   THEN alloc(FRAMES_ALLOCATOR, ctx[c].arg.num_frames, ctx[c].arg.level)
                   ELSE dealloc(FRAMES_ALLOCATOR, ctx[c].arg.address,
                                ctx[c].arg.size, ctx[c].arg.level) } :
           ctx' = [ctx EXCEPT ![c].pc = "read",
                              ![c].snap = FRAMES_ALLOCATOR.bitmap,
                              ![c].res = r]
    /\ UNCHANGED <<FRAMES_ALLOCATOR, mem, root, ALLOCATOR, hist, lock, scheduler>>

\* the words the call changed are stored; a word it did not change is left
\* as it is in memory
StoreWords(bitmap, snap, computed) ==
    [w \in DOMAIN bitmap |-> IF computed[w] # snap[w] THEN computed[w] ELSE bitmap[w]]

\* the call of context c stores its words and has its outcome
WriteBitmap(c) ==
    /\ ~Panicked
    /\ ctx[c].pc = "read"
    /\ \E bm \in {StoreWords(FRAMES_ALLOCATOR.bitmap, ctx[c].snap,
                              ctx[c].res.self.bitmap)} :
           /\ FRAMES_ALLOCATOR' = WithBitmap(FRAMES_ALLOCATOR, bm)
           /\ hist' = Append(hist, Call(ctx[c].op,
                         [f \in DOMAIN ctx[c].arg \cup {"by", "id", "with"} |->
                             IF f = "by" THEN c
                             ELSE IF f = "id" THEN ctx[c].id
                             ELSE IF f = "with" THEN ctx[c].with
                             ELSE ctx[c].arg[f]],
                         ctx[c].res.ret, ctx[c].res.panic,
                         FRAMES_ALLOCATOR.bitmap, bm))
    /\ ctx' = [ctx EXCEPT ![c].pc = "written"]
    /\ UNCHANGED <<mem, root, ALLOCATOR, lock, scheduler>>

\* the guard is dropped at the end of the statement: the lock is free again
\* and the call returns
Unlock(c) ==
    /\ ~Panicked
    /\ ctx[c].pc = "written"
    /\ lock' = 0
    /\ ctx' = [ctx EXCEPT ![c] = Idle]
    /\ UNCHANGED <<FRAMES_ALLOCATOR, mem, root, ALLOCATOR, hist, scheduler>>

NextConc ==
    \E c \in Contexts :
        \/ \E n \in ConcCounts : BeginAlloc(c, n, KiB4)
        \/ \E k \in 1 .. Len(hist) : BeginDealloc(c, k)
        \/ Lock(c)
        \/ ReadBitmap(c)
        \/ WriteBitmap(c)
        \/ Unlock(c)

SpecConc == InitConc /\ [][NextConc]_vars

\* the calls of hist, in the order they held the lock, are a sequential
\* run: each found the bitmap the one before left and has the outcome the
\* operation has on it
SequentialOrder ==
    \A k \in 1 .. Len(hist) :
        /\ hist[k].pre = IF k = 1
                         THEN init_frames_allocation(1835008, 3145728).bitmap
                         ELSE hist[k - 1].post
        /\ \E r \in { IF hist[k].op = "alloc"
                       THEN alloc(WithBitmap(FRAMES_ALLOCATOR, hist[k].pre),
                                  hist[k].arg.num_frames, hist[k].arg.level)
                       ELSE dealloc(WithBitmap(FRAMES_ALLOCATOR, hist[k].pre),
                                    hist[k].arg.address, hist[k].arg.size,
                                    hist[k].arg.level) } :
               /\ hist[k].ret = r.ret
               /\ hist[k].panic = r.panic
               /\ hist[k].post = r.self.bitmap

\* calls k1 and k2 were in progress at the same time
Concurrent(k1, k2) ==
    hist[k1].arg.id \in hist[k2].arg.with \/ hist[k2].arg.id \in hist[k1].arg.with

\* C15: however the steps of the contexts interleave, the calls have the
\* outcomes of a sequential run in the order they held the lock, and two
\* allocs in progress at the same time, the first not given back before the
\* second ran, return ranges that do not overlap.
C15_SerializedAndDisjoint ==
    /\ SequentialOrder
    /\ \A k1, k2 \in 1 .. Len(hist) :
           (/\ k1 < k2
            /\ IsAlloc(k1) /\ IsAlloc(k2)
            /\ Concurrent(k1, k2)
            /\ ~\E j \in k1 .. k2 : hist[j].op = "dealloc" /\ hist[j].arg.of = k1) =>
               Disjoint(RangeStart(k1), RangeEnd(k1), RangeStart(k2), RangeEnd(k2))

-----------------------------------------------------------------------------
(* The calls step by step.  A call is made, runs, and ends with a value or *)
(* a panic.  The two while loops of the allocator (alloc_contigous and     *)
(* inter_alloc_contigous_4k_frames) take one step an iteration; every      *)
(* other loop of the code is a for over a slice, a range or the three      *)
(* vpns, and runs inside one step.  ctx is the call in progress:           *)
(*   [pc, op, arg, start_index],                                           *)
(* pc being "idle", "called", "group_scan" or "inter_scan".                *)

\* the most calls in a run
MaxStepOps == 3

\* <<num_frames, level>> alloc is called with
StepAllocs == { <<1, KiB4>>, <<1, MiB2>>, <<2, MiB2>>, <<65, KiB4>>, <<2, GiB1>> }
\* <<from_addr, to_addr, level>> map is called with
StepMaps == { <<2097152, 16384, KiB4>>, <<2097152, 1073741824, MiB2>> }

NoCall == [pc |-> "idle", op |-> "", arg |-> <<>>, start_index |-> 0]

InitSteps ==
    /\ \E reg \in Regions :
       \E r \in {create_root_table(init_frames_allocation(reg[1], reg[2]))} :
           /\ FRAMES_ALLOCATOR = r.self
           /\ root = r.ret
           /\ mem = ZeroTable(<<>>, r.ret)
    /\ ALLOCATOR = <<>>
    /\ hist = <<>>
    /\ lock = 0
    /\ ctx = NoCall
    /\ scheduler = <<>>

\* the call op(arg) is made
CallOp(op, arg) ==
    /\ ~Panicked
    /\ ctx.pc = "idle"
    /\ Len(hist) < MaxStepOps
    /\ ctx' = [NoCall EXCEPT !.pc = "called", !.op = op, !.arg = arg]
    /\ UNCHANGED <<FRAMES_ALLOCATOR, mem, root, ALLOCATOR, hist, lock, scheduler>>

\* the call in progress ends with the outcome r of the allocator
EndAllocatorCall(r) ==
    /\ FRAMES_ALLOCATOR' = r.self
    /\ hist' = Append(hist, Call(ctx.op, ctx.arg,
                  r.ret, r.panic, PagingState, [mem |-> mem, bitmap |-> r.self.bitmap]))
    /\ lock' = 0
    /\ ctx' = NoCall
    /\ UNCHANGED <<mem, root, ALLOCATOR, scheduler>>

\* alloc(num_frames, level) runs the while loop of alloc_contigous
UsesGroupScan(arg) ==
    arg.level # KiB4 /\ ~(arg.num_frames = 1 /\ arg.level = GiB1)
\* alloc(num_frames, level) runs the while loop of inter_alloc_contigous_4k_frames
UsesInterScan(arg) ==
    arg.level = KiB4 /\ arg.num_frames > BITMAP_ENTRY_BITS

\* num_entries of alloc_contigous
GroupEntries(arg) ==
    Max({((LevelSize(arg.level) \div FRAME_SIZE) * arg.num_frames)
             \div BITMAP_ENTRY_BITS, 1})

\* the lock taken, alloc_contigous comes to its while loop
EnterGroupScan ==
    /\ ctx.pc = "called" /\ ctx.op = "alloc" /\ UsesGroupScan(ctx.arg)
    /\ compare_exchange(lock)
    /\ lock' = 1
    /\ ctx' = [ctx EXCEPT !.pc = "group_scan",
                          !.start_index =
                              AlignOffset(FRAMES_ALLOCATOR.mem_start, LevelSize(ctx.arg.level))
                                  \div (BITMAP_ENTRY_BITS * KIB)]
    /\ UNCHANGED <<FRAMES_ALLOCATOR, mem, root, ALLOCATOR, hist, scheduler>>

\* the lock taken, inter_alloc_contigous_4k_frames comes to its while loop
EnterInterScan ==
    /\ ctx.pc = "called" /\ ctx.op = "alloc" /\ UsesInterScan(ctx.arg)
    /\ compare_exchange(lock)
    /\ lock' = 1
    /\ ctx' = [ctx EXCEPT !.pc = "inter_scan", !.start_index = 0]
    /\ UNCHANGED <<FRAMES_ALLOCATOR, mem, root, ALLOCATOR, hist, scheduler>>

\* start_index += num_entries
next_group_stalled(start_index, num_entries) == start_index
next_group(start_index, num_entries) == start_index + num_entries

\* the window start_index .. start_index + num_entries of the loop of
\* alloc_contigous: it leaves the bitmap, holds a used frame, or is free
GroupWindow(self, start_index, num_entries) ==
    IF ~InBitmap(self, start_index, start_index + num_entries) THEN "outside"
    ELSE IF \E i \in start_index .. (start_index + num_entries - 1) :
                self.bitmap[i] # U64_ZERO
    THEN "used"
    ELSE "free"

\* an iteration of the while loop of alloc_contigous that goes round again
GroupScanStep ==
    /\ ctx.pc = "group_scan"
    /\ GroupWindow(FRAMES_ALLOCATOR, ctx.start_index, GroupEntries(ctx.arg)) = "used"
    /\ ctx' = [ctx EXCEPT !.start_index = next_group(@, GroupEntries(ctx.arg))]
    /\ UNCHANGED <<FRAMES_ALLOCATOR, mem, root, ALLOCATOR, hist, lock, scheduler>>

\* the while loop of alloc_contigous ends: get(..).unwrap() panics on a
\* window outside the bitmap, or the free window is marked and returned
GroupScanEnd ==
    /\ ctx.pc = "group_scan"
    /\ GroupWindow(FRAMES_ALLOCATOR, ctx.start_index, GroupEntries(ctx.arg)) # "used"
    /\ LET marked == FillRange(FRAMES_ALLOCATOR, ctx.start_index,
                               ctx.start_index + GroupEntries(ctx.arg), U64_MAX)
           page_ptr == FRAMES_ALLOCATOR.mem_start
                           + ctx.start_index * BITMAP_ENTRY_SIZE_BYTES
       IN  EndAllocatorCall(
               IF GroupWindow(FRAMES_ALLOCATOR, ctx.start_index,
                              GroupEntries(ctx.arg)) = "outside"
               THEN Panic(FRAMES_ALLOCATOR, "unwrap_none")
               ELSE IF page_ptr % LevelSize(ctx.arg.level) # 0
               THEN Panic(marked, "not_aligned")
               ELSE Ok(marked, page_ptr))

\* what an iteration of the while loop of inter_alloc_contigous_4k_frames
\* comes to at start_index: "skip" (start_index += entries_needed),
\* "jump" (start_index += range.end + 1), or the end of the loop
InterWindow(self, start_index, entries_needed, remaining_bits_needed) ==
    LET range_end == start_index + entries_needed
    IN  IF ~(self.mem_start + start_index < self.mem_end - entries_needed - 1)
        THEN "no_frames"
        ELSE IF ~InBitmap(self, start_index, range_end) THEN "unwrap_none"
        ELSE IF \E i \in start_index .. (range_end - 1) : self.bitmap[i] # U64_ZERO
        THEN "skip"
        ELSE IF remaining_bits_needed # 0 /\ range_end >= self.size
        THEN "unwrap_none"
        ELSE IF remaining_bits_needed # 0
                /\ LeadingZeros(self.bitmap[range_end]) < remaining_bits_needed
        THEN "jump"
        ELSE IF self.mem_start + start_index * BITMAP_ENTRY_SIZE_BYTES < self.mem_end
        THEN "found"
        ELSE "no_frames"

\* an iteration of the while loop of inter_alloc_contigous_4k_frames that
\* goes round again
InterScanStep ==
    /\ ctx.pc = "inter_scan"
    /\ \E entries_needed \in {ctx.arg.num_frames \div BITMAP_ENTRY_BITS} :
       \E w \in {InterWindow(FRAMES_ALLOCATOR, ctx.start_index, entries_needed,
                              ctx.arg.num_frames % BITMAP_ENTRY_BITS)} :
           /\ w \in {"skip", "jump"}
           /\ ctx' = [ctx EXCEPT !.start_index =
                                     IF w = "skip" THEN @ + entries_needed
                                     ELSE @ + (@ + entries_needed) + 1]
    /\ UNCHANGED <<FRAMES_ALLOCATOR, mem, root, ALLOCATOR, hist, lock, scheduler>>

\* the while loop of inter_alloc_contigous_4k_frames ends: in a panic, or
\* with the window marked and returned
InterScanEnd ==
    /\ ctx.pc = "inter_scan"
    /\ \E entries_needed \in {ctx.arg.num_frames \div BITMAP_ENTRY_BITS} :
       \E remaining_bits_needed \in {ctx.arg.num_frames % BITMAP_ENTRY_BITS} :
       \E w \in {InterWindow(FRAMES_ALLOCATOR, ctx.start_index, entries_needed,
                              remaining_bits_needed)} :
           /\ w \notin {"skip", "jump"}
           /\ EndAllocatorCall(
                  IF w # "found" THEN Panic(FRAMES_ALLOCATOR, w)
                  ELSE \* InterScan at a window that is found marks and returns it
                       InterScan(FRAMES_ALLOCATOR, ctx.start_index, entries_needed,
                                 remaining_bits_needed))

\* a call that comes to no while loop runs from its first statement to its
\* last: it ends with mem and the allocator as m and fa, the value ret or
\* the panic
EndStraight(m, fa, ret, panic) ==
    /\ FRAMES_ALLOCATOR' = fa
    /\ mem' = m
    /\ hist' = Append(hist, Call(ctx.op, ctx.arg,
                  ret, panic, PagingState, [mem |-> m, bitmap |-> fa.bitmap]))
    /\ ctx' = NoCall
    /\ UNCHANGED <<root, ALLOCATOR, lock, scheduler>>

\* alloc by alloc_single or intra_alloc_contigous_4k_frames
RunAlloc ==
    /\ ctx.pc = "called" /\ ctx.op = "alloc"
    /\ ~UsesGroupScan(ctx.arg) /\ ~UsesInterScan(ctx.arg)
    /\ compare_exchange(lock)
    /\ \E r \in {alloc(FRAMES_ALLOCATOR, ctx.arg.num_frames, ctx.arg.level)} :
           EndStraight(mem, r.self, r.ret, r.panic)

\* dealloc
RunDealloc ==
    /\ ctx.pc = "called" /\ ctx.op = "dealloc"
    /\ compare_exchange(lock)
    /\ \E r \in {dealloc(FRAMES_ALLOCATOR, ctx.arg.address, ctx.arg.size,
                          ctx.arg.level)} :
           EndStraight(mem, r.self, r.ret, r.panic)

\* map: its loop is a for over the three vpns, its zero_alloc an
\* alloc_single under the lock
RunMap ==
    /\ ctx.pc = "called" /\ ctx.op = "map"
    /\ compare_exchange(lock)
    /\ \E r \in {map(mem, FRAMES_ALLOCATOR, root, ctx.arg.from_addr, ctx.arg.to_addr,
                      ctx.arg.entry_flags, ctx.arg.level)} :
           EndStraight(r.mem, r.fa, r.ret, r.panic)

\* unmap: two for loops over the 512 entries of a table
RunUnmap ==
    /\ ctx.pc = "called" /\ ctx.op = "unmap"
    /\ compare_exchange(lock)
    /\ \E r \in {unmap(mem, FRAMES_ALLOCATOR, root)} :
           EndStraight(unmap_tables(mem, FRAMES_ALLOCATOR, root),
                       r.self, <<>>, r.panic)

\* virtual_to_physical: a for over the three vpns
RunTranslate ==
    /\ ctx.pc = "called" /\ ctx.op = "virtual_to_physical"
    /\ \E r \in {virtual_to_physical(mem, root, ctx.arg.virtual_addr)} :
           EndStraight(mem, FRAMES_ALLOCATOR, r.ret, r.panic)

\* a step of the call in progress
Step ==
    \/ EnterGroupScan
    \/ EnterInterScan
    \/ GroupScanStep
    \/ GroupScanEnd
    \/ InterScanStep
    \/ InterScanEnd
    \/ RunAlloc
    \/ RunDealloc
    \/ RunMap
    \/ RunUnmap
    \/ RunTranslate

NextSteps ==
    \/ \E a \in StepAllocs : CallOp("alloc", [num_frames |-> a[1], level |-> a[2]])
    \/ \E k \in 1 .. Len(hist) :
          /\ hist[k].op = "alloc" /\ hist[k].panic = NoPanic
          /\ CallOp("dealloc", [address |-> hist[k].ret, size |-> hist[k].arg.num_frames,
                                level |-> hist[k].arg.level, of |-> k])
    \/ \E a \in StepMaps :
          CallOp("map", [from_addr |-> a[1], to_addr |-> a[2],
                         entry_flags |-> BitOr(VALID, READ_WRITE), level |-> a[3]])
    \/ CallOp("unmap", [table |-> root])
    \/ \E va \in MapVirt : CallOp("virtual_to_physical", [virtual_addr |-> va])
    \/ Step

SpecSteps == InitSteps /\ [][NextSteps]_vars

\* the call in progress keeps running
SpecStepsFair == SpecSteps /\ WF_vars(Step)

\* the outcome of every alloc that ended is the outcome of alloc on the
\* bitmap the call found
StepsAgree ==
    \A k \in 1 .. Len(hist) :
        hist[k].op = "alloc" =>
            \E r \in {alloc(WithBitmap(FRAMES_ALLOCATOR, hist[k].pre.bitmap),
                            hist[k].arg.num_frames, hist[k].arg.level)} :
                /\ hist[k].ret = r.ret
                /\ hist[k].panic = r.panic
                /\ hist[k].post.bitmap = r.self.bitmap

\* C20: every call that is made ends, with a value or a panic; and a scan
\* whose window has left the bitmap ends the call in its next step, with a
\* panic.
C20_EveryCallEnds ==
    /\ [](ctx.pc # "idle" => <>(ctx.pc = "idle"))
    /\ [][(/\ ctx.pc \in {"group_scan", "inter_scan"}
           /\ ctx.start_index + (IF ctx.pc = "group_scan"
                                 THEN GroupEntries(ctx.arg)
                                 ELSE ctx.arg.num_frames \div BITMAP_ENTRY_BITS)
                  > FRAMES_ALLOCATOR.size)
              => (ctx'.pc = "idle" /\ hist'[Len(hist')].panic # NoPanic)]_vars

\* an alloc of two 2MiB frames whose scan found the windows at words 0 and
\* 16 used and the window at word 32 outside the bitmap has ended in a panic
C20_Witness ==
    /\ ctx.pc = "idle"
    /\ Len(hist) = 2
    /\ hist[2].op = "alloc"
    /\ hist[2].arg = [num_frames |-> 2, level |-> MiB2]
    /\ FRAMES_ALLOCATOR.size = 33
    /\ hist[2].pre.bitmap[0] # U64_ZERO
    /\ hist[2].pre.bitmap[16] # U64_ZERO
    /\ hist[2].panic = "unwrap_none"


-----------------------------------------------------------------------------
(* Claims about the slots map writes and unmap reads (checked under        *)
(* SpecPaging)                                                             *)

RECURSIVE SlotTable(_, _, _, _, _)
\* the address of the table that holds the slot vpns selects at level,
\* reached from table at current_level through the frame numbers of the
\* slots above it
SlotTable(m, table, current_level, vpns, level) ==
    IF current_level = level THEN table
    ELSE SlotTable(m, get_ppn(EntryAt(m, table, vpns[current_level + 1])),
                   current_level - 1, vpns, level)

\* the slot the virtual address va selects at level
SlotOf(m, va, level) ==
    EntryAt(m, SlotTable(m, root, top, extract_vpns(va), level),
            extract_vpns(va)[level + 1])

\* the seven flag bits of a slot above the valid bit
SlotFlags(entry) ==
    {b \in 1 .. 7 : << entry.read, entry.write, entry.execute, entry.user,
                       entry.global, entry.accessed, entry.dirty >>[b]}

\* C21: after a successful map(root, pa, va, flags, level) the slot va
\* selects at the target level is a LEAF: valid, with the read, write,
\* execute, user, global, accessed and dirty bits of flags, and with frame
\* number fields that decode to pa.
C21_MappedSlotIsLeaf ==
    \A k \in 1 .. Len(hist) :
        IsMap(k) =>
            LET slot == SlotOf(hist[k].post.mem, hist[k].arg.to_addr,
                               hist[k].arg.level)
            IN  /\ get_type(slot) = "Leaf"
                /\ slot.valid
                /\ SlotFlags(slot) = hist[k].arg.entry_flags \cap (1 .. 7)
                /\ get_ppn(slot) = hist[k].arg.from_addr


\* the <<word, bit>> pairs a bitmap marks used
UsedBits(bitmap) ==
    UNION { { <<w, b>> : b \in bitmap[w] } : w \in DOMAIN bitmap }

\* the 4KiB frame at addr is marked used in bitmap
FrameUsed(bitmap, addr) ==
    LET ib == bitmap_entry_index_bit(FRAMES_ALLOCATOR, addr)
    IN  ib[1] \in DOMAIN bitmap /\ ib[2] \in bitmap[ib[1]]

\* the levels above the target level at which the walk of map call k met
\* an EMPTY slot: the slot was invalid before the call, or lies in a table
\* the call created
MetEmpty(k) ==
    LET vpns == extract_vpns(hist[k].arg.to_addr)
    IN  {L \in (hist[k].arg.level + 1) .. top :
            \E U \in L .. top :
                get_type(EntryAt(hist[k].pre.mem,
                                 SlotTable(hist[k].post.mem, root, top, vpns, U),
                                 vpns[U + 1])) = "Invalid"}

\* C22: during a map call every EMPTY slot met above the target level
\* becomes a BRANCH to one newly allocated 4KiB frame whose entries are all
\* EMPTY (but for the slot the walk goes on to write), and a BRANCH met is
\* kept and followed without allocating; the call takes one frame for each
\* EMPTY slot met, so a 4KiB map into an empty root takes two and a second
\* 4KiB map sharing both upper indices takes none.
C22_LazyTablesOneFramePerEmptySlot ==
    \A k \in 1 .. Len(hist) :
        IsMap(k) =>
            LET pre == hist[k].pre
                post == hist[k].post
                vpns == extract_vpns(hist[k].arg.to_addr)
            IN  /\ \A L \in (hist[k].arg.level + 1) .. top :
                       LET t == SlotTable(post.mem, root, top, vpns, L)
                           after == EntryAt(post.mem, t, vpns[L + 1])
                           child == get_ppn(after)
                       IN  /\ get_type(after) = "Branch"
                           /\ L \in MetEmpty(k) =>
                                  /\ ~FrameUsed(pre.bitmap, child)
                                  /\ FrameUsed(post.bitmap, child)
                                  /\ \A j \in 0 .. (PAGE_TABLE_LEN - 1) :
                                         j # vpns[L] =>
                                             EntryAt(post.mem, child, j) = ZeroEntry
                           /\ L \notin MetEmpty(k) =>
                                  after = EntryAt(pre.mem, t, vpns[L + 1])
                /\ UsedBits(pre.bitmap) \subseteq UsedBits(post.bitmap)
                /\ Cardinality(UsedBits(post.bitmap) \ UsedBits(pre.bitmap))
                       = Cardinality(MetEmpty(k))


RECURSIVE MeetsLeafAbove(_, _, _, _, _)
\* the walk for vpns from table at current_level meets, above level, a
\* slot that is valid with one of read, write and execute set
MeetsLeafAbove(m, table, current_level, vpns, level) ==
    LET entry == EntryAt(m, table, vpns[current_level + 1])
    IN  IF current_level <= level THEN FALSE
        ELSE IF ~entry.valid THEN FALSE
        ELSE IF entry.read \/ entry.write \/ entry.execute THEN TRUE
        ELSE MeetsLeafAbove(m, get_ppn(entry), current_level - 1, vpns, level)

\* the walk of map call k started (its addresses are aligned and its flags
\* those of a leaf) and met a LEAF slot above the target level
MapUnderLeaf(k) ==
    /\ hist[k].op = "map"
    /\ ~BadMapCall(k)
    /\ MeetsLeafAbove(hist[k].pre.mem, root, top,
                      extract_vpns(hist[k].arg.to_addr), hist[k].arg.level)

\* C23: a map call whose walk meets a LEAF slot above the target level ends
\* in the fatal went-through-a-leaf condition and writes nothing: the leaf
\* keeps its value, no table is entered through its frame number and no
\* frame is taken.
C23_MapThroughLeafIsFatal ==
    \A k \in 1 .. Len(hist) :
        MapUnderLeaf(k) =>
            /\ hist[k].panic = "through_leaf"
            /\ hist[k].post = hist[k].pre
            /\ k = Len(hist) => PagingState = hist[k].pre

\* a 4KiB map under a valid 2MiB or 1GiB leaf that an earlier map wrote
\* ended in the fatal condition
C23_Witness ==
    /\ Len(hist) = 2
    /\ IsMap(1) /\ hist[1].arg.level \in {MiB2, GiB1}
    /\ 0 \in hist[1].arg.entry_flags
    /\ hist[2].op = "map" /\ hist[2].arg.level = KiB4
    /\ hist[2].arg.to_addr = hist[1].arg.to_addr
    /\ MapUnderLeaf(2)
    /\ hist[2].panic = "through_leaf"


\* the slots <<table, index>> whose value differs between two memories
ChangedSlots(before, after) ==
    UNION { { <<t, i>> : i \in { j \in (IF t \in DOMAIN before
                                        THEN DOMAIN before[t] ELSE {})
                                       \cup DOMAIN after[t] :
                                  EntryAt(before, t, j) # EntryAt(after, t, j) } }
            : t \in DOMAIN after }

\* the slots on the walk of map call k, from the root down to its target
WalkSlots(k) ==
    LET vpns == extract_vpns(hist[k].arg.to_addr)
    IN  { << SlotTable(hist[k].post.mem, root, top, vpns, L), vpns[L + 1] >>
          : L \in hist[k].arg.level .. top }

\* the virtual addresses of the successful map calls before call k
MappedBefore(k) == { hist[j].arg.to_addr : j \in {i \in 1 .. (k - 1) : IsMap(i)} }

\* C24: a map call changes only slots on its walk that were not valid
\* before it (its target and the EMPTY slots above it), so no LEAF or BRANCH
\* slot changes value, and virtual_to_physical gives, for every virtual
\* address mapped by an earlier call, the result it gave before the call.
C24_MapKeepsEarlierMappings ==
    \A k \in 1 .. Len(hist) :
        hist[k].op = "map" =>
            /\ \A s \in ChangedSlots(hist[k].pre.mem, hist[k].post.mem) :
                   /\ s \in WalkSlots(k)
                   /\ ~EntryAt(hist[k].pre.mem, s[1], s[2]).valid
            /\ \A va \in MappedBefore(k) :
                   virtual_to_physical(hist[k].post.mem, root, va)
                       = virtual_to_physical(hist[k].pre.mem, root, va)


\* the tables the BRANCH slots of table point at
Children(m, table) ==
    { get_ppn(EntryAt(m, table, i)) : i \in BranchSlots(m, table) }

\* the frames of the child tables of table and of their child tables
TableFrames(m, table) ==
    Children(m, table) \cup UNION { Children(m, c) : c \in Children(m, table) }

\* the <<word, bit>> pair of the 4KiB frame at addr
FrameBit(addr) ==
    LET ib == bitmap_entry_index_bit(FRAMES_ALLOCATOR, addr)
    IN  << ib[1], ib[2] >>

\* C25: unmap(table) on a table with child tables made by map completes
\* without a fatal condition, and afterwards the bits of the frames of its
\* child and grandchild tables are free and no other bit has changed.
C25_UnmapFreesTableFrames ==
    \A k \in 1 .. Len(hist) :
        (hist[k].op = "unmap" /\ Children(hist[k].pre.mem, root) # {}) =>
            /\ hist[k].panic = NoPanic
            /\ UsedBits(hist[k].post.bitmap)
                   = UsedBits(hist[k].pre.bitmap)
                         \ { FrameBit(f) : f \in TableFrames(hist[k].pre.mem, root) }


\* the indices of table that were written since its frame was zeroed;
\* every other slot holds zero
Written(m, table) == IF table \in DOMAIN m THEN DOMAIN m[table] ELSE {}

\* the slots of table and of its child tables that hold different 64-bit
\* words in the two memories
WordsChanged(before, after, table) ==
    { s \in UNION { { <<t, i>> : i \in Written(before, t) \cup Written(after, t) }
                    : t \in {table} \cup Children(before, table) } :
          into_bytes(EntryAt(before, s[1], s[2]))
              # into_bytes(EntryAt(after, s[1], s[2])) }

\* C26: unmap(table) changes no page-table entry: every slot of the table
\* and of its child tables holds the same 64-bit value after the call as
\* before it, so each BRANCH slot is still valid and still points at the
\* frame it pointed at.
C26_UnmapKeepsEntries ==
    \A k \in 1 .. Len(hist) :
        hist[k].op = "unmap" =>
            /\ WordsChanged(hist[k].pre.mem, hist[k].post.mem, root) = {}
            /\ \A t \in {root} \cup Children(hist[k].pre.mem, root) :
                   \A i \in BranchSlots(hist[k].pre.mem, t) :
                       /\ get_type(EntryAt(hist[k].post.mem, t, i)) = "Branch"
                       /\ get_ppn(EntryAt(hist[k].post.mem, t, i))
                              = get_ppn(EntryAt(hist[k].pre.mem, t, i))
            /\ k = Len(hist) => mem = hist[k].post.mem

\* an unmap gave back the frame of a grandchild table, and the BRANCH slot
\* of the child table still points at that frame
C26_Witness ==
    \E k \in 1 .. Len(hist) :
        /\ hist[k].op = "unmap"
        /\ \E c \in Children(hist[k].pre.mem, root) :
           \E i \in BranchSlots(hist[k].post.mem, c) :
               LET f == get_ppn(EntryAt(hist[k].post.mem, c, i))
               IN  /\ FrameBit(f) \in UsedBits(hist[k].pre.bitmap)
                   /\ FrameBit(f) \notin UsedBits(hist[k].post.bitmap)


-----------------------------------------------------------------------------
(* The frame allocator over regions cut to the bitmap's words: alloc and   *)
(* dealloc calls as in SpecFrames.                                         *)

\* <<start, size>> of the regions init_frames_allocation is given: the 64
\* frames of one bitmap word; 32 MiB, which holds two groups of 2MiB
\* frames one after the other
ScanRegions == { <<2097152, 262144>>, <<2097152, 33554432>> }

InitScans ==
    /\ \E r \in ScanRegions : FRAMES_ALLOCATOR = init_frames_allocation(r[1], r[2])
    /\ mem = <<>>
    /\ root = 0
    /\ ALLOCATOR = <<>>
    /\ hist = <<>>
    /\ lock = 0
    /\ ctx = <<>>
    /\ scheduler = <<>>

SpecScans == InitScans /\ [][NextFrames]_vars

-----------------------------------------------------------------------------
(* Claims about the scans of alloc and the bits dealloc clears (checked    *)
(* under SpecFrames and SpecScans)                                         *)

\* bits i .. i+n-1 of word w are all free in bitmap
RunFree(bitmap, w, i, n) ==
    /\ w \in DOMAIN bitmap
    /\ i + n <= BITMAP_ENTRY_BITS
    /\ \A b \in i .. (i + n - 1) : b \notin bitmap[w]

\* the address of the frame of bit i of word w
BitAddress(w, i) ==
    FRAMES_ALLOCATOR.mem_start + (BITMAP_ENTRY_BITS * w + i) * FRAME_SIZE

\* bitmap with bits i .. i+n-1 of word w marked used
WithRun(bitmap, w, i, n) ==
    [bitmap EXCEPT ![w] = @ \cup (i .. (i + n - 1))]

\* call k is alloc(count, 4KiB) with 2 <= count <= 64
IntraCall(k) ==
    /\ hist[k].op = "alloc"
    /\ hist[k].arg.level = KiB4
    /\ hist[k].arg.num_frames \in 2 .. BITMAP_ENTRY_BITS

\* C27: alloc(count, 4KiB) with 2 <= count <= 64 succeeds whenever some
\* bitmap word has count contiguous free bits, at any offset up to the one
\* whose run ends at the word's highest bit, for frames inside the region;
\* a successful call returns the address of a run that was free in one word
\* and marks exactly its bits; so exhaustion is reported only when no word
\* holds such a run.
C27_IntraWordRunFound ==
    \A k \in 1 .. Len(hist) :
        IntraCall(k) =>
            LET n == hist[k].arg.num_frames
                Slots == (DOMAIN hist[k].pre) \X (0 .. (BITMAP_ENTRY_BITS - n))
            IN  /\ (\E s \in Slots :
                       /\ RunFree(hist[k].pre, s[1], s[2], n)
                       /\ BitAddress(s[1], s[2] + n) <= FRAMES_ALLOCATOR.mem_end)
                       => hist[k].panic = NoPanic
                /\ hist[k].panic = NoPanic =>
                       \E s \in Slots :
                           /\ RunFree(hist[k].pre, s[1], s[2], n)
                           /\ hist[k].ret = BitAddress(s[1], s[2])
                           /\ hist[k].post = WithRun(hist[k].pre, s[1], s[2], n)


\* the <<word, bit>> pairs of the n 4KiB frames from addr on
FrameBits(addr, n) ==
    LET first == (addr - FRAMES_ALLOCATOR.mem_start) \div FRAME_SIZE
    IN  { << f \div BITMAP_ENTRY_BITS, f % BITMAP_ENTRY_BITS >>
          : f \in first .. (first + n - 1) }

\* C28: a successful alloc(count, 4KiB) with count > 64 returns an address
\* from which all count frames were free before the call, and marks used
\* exactly those frames: count/64 whole words and the count mod 64 frames
\* that continue the run at the low end of the next word.
C28_InterWordRunWasFree ==
    \A k \in 1 .. Len(hist) :
        (IsAlloc(k) /\ hist[k].arg.level = KiB4
             /\ hist[k].arg.num_frames > BITMAP_ENTRY_BITS) =>
            LET run == FrameBits(hist[k].ret, hist[k].arg.num_frames)
            IN  /\ run \cap UsedBits(hist[k].pre) = {}
                /\ UsedBits(hist[k].post) = UsedBits(hist[k].pre) \cup run


\* the bitmap words a request of n 2MiB frames covers
GroupWords(n) == ((LevelSize(MiB2) \div FRAME_SIZE) * n) \div BITMAP_ENTRY_BITS

\* the words from which a group for n 2MiB frames is entirely free in
\* bitmap, starts on a 2MiB boundary and lies inside the tracked region
FreeGroups(bitmap, n) ==
    { w \in DOMAIN bitmap :
        /\ BitAddress(w, 0) % LevelSize(MiB2) = 0
        /\ BitAddress(w + GroupWords(n), 0) <= FRAMES_ALLOCATOR.mem_end
        /\ \A i \in w .. (w + GroupWords(n) - 1) :
               i \in DOMAIN bitmap /\ bitmap[i] = U64_ZERO }

\* C29: alloc(count, 2MiB), whenever a group of entirely free words that
\* starts on a 2MiB boundary and covers the request exists inside the
\* region, succeeds, returns the lowest-addressed such group and marks
\* every word of it fully used and no other word, whatever the region's
\* start is.
C29_LowestAlignedGroup ==
    \A k \in 1 .. Len(hist) :
        (hist[k].op = "alloc" /\ hist[k].arg.level = MiB2
             /\ FreeGroups(hist[k].pre, hist[k].arg.num_frames) # {}) =>
            LET n == hist[k].arg.num_frames
                w == Min(FreeGroups(hist[k].pre, n))
            IN  /\ hist[k].panic = NoPanic
                /\ hist[k].ret = BitAddress(w, 0)
                /\ hist[k].post =
                       [i \in DOMAIN hist[k].pre |->
                           IF w <= i /\ i < w + GroupWords(n)
                           THEN U64_MAX ELSE hist[k].pre[i]]


\* C30: a successful dealloc(address, count, L) clears exactly the bits of
\* the count * size(L) / 4096 frames from address on and leaves every other
\* bit of the bitmap as it was, for every size class and every position of
\* the range.
C30_DeallocClearsExactlyRange ==
    \A k \in 1 .. Len(hist) :
        IsDealloc(k) =>
            UsedBits(hist[k].post)
                = UsedBits(hist[k].pre)
                      \ FrameBits(hist[k].arg.address,
                                  hist[k].arg.size
                                      * (LevelSize(hist[k].arg.level) \div FRAME_SIZE))


-----------------------------------------------------------------------------
(* Claims about the blocks and the free list of the kernel heap (checked   *)
(* under SpecHeap)                                                         *)

\* heap call k returned a block
IsHeapAlloc(k) ==
    hist[k].op = "heap_alloc" /\ hist[k].panic = NoPanic /\ hist[k].ret # 0

\* the block of heap call k has not been given back among the first n calls
HeapLiveAt(k, n) ==
    /\ k <= n
    /\ IsHeapAlloc(k)
    /\ ~\E j \in (k + 1) .. n : hist[j].op = "heap_dealloc" /\ hist[j].arg.of = k

\* every heap dealloc so far gave back a block that was live when it ran
HeapMatching ==
    \A j \in 1 .. Len(hist) :
        hist[j].op = "heap_dealloc" => HeapLiveAt(hist[j].arg.of, j - 1)

\* the region alloc::init gave the heap: the one node of the first free list
HeapRegion == IF hist = <<>> THEN ALLOCATOR[1] ELSE hist[1].pre[1]

\* [first, last) in bytes of the block of heap call k
BlockStart(k) == hist[k].ret
BlockEnd(k) == hist[k].ret + Request(k)[1]

\* C31: after heap alloc calls and matching dealloc calls, every block
\* returned is a multiple of the requested alignment (at least the
\* header's), lies inside the heap region, and every live block overlaps no
\* other live block and no node of the free list.
C31_BlocksAlignedInsideDisjoint ==
    HeapMatching =>
        \A k \in 1 .. Len(hist) :
            IsHeapAlloc(k) =>
                /\ BlockStart(k) % Request(k)[2] = 0
                /\ HeapRegion.addr <= BlockStart(k)
                /\ BlockEnd(k) <= HeapRegion.addr + HeapRegion.size
                /\ \A i \in 1 .. Len(hist[k].post) :
                       Disjoint(BlockStart(k), BlockEnd(k),
                                hist[k].post[i].addr,
                                hist[k].post[i].addr + hist[k].post[i].size)
                /\ HeapLiveAt(k, Len(hist)) =>
                       /\ \A i \in 1 .. Len(ALLOCATOR) :
                              Disjoint(BlockStart(k), BlockEnd(k),
                                       ALLOCATOR[i].addr,
                                       ALLOCATOR[i].addr + ALLOCATOR[i].size)
                       /\ \A j \in 1 .. Len(hist) :
                              (j # k /\ HeapLiveAt(j, Len(hist))) =>
                                  Disjoint(BlockStart(k), BlockEnd(k),
                                           BlockStart(j), BlockEnd(j))

\* two blocks are live, one of them asked for with an alignment the start
\* of its node did not have, and the free list holds a node
C31_Witness ==
    /\ HeapMatching
    /\ ALLOCATOR # <<>>
    /\ \E k, j \in 1 .. Len(hist) :
           /\ k # j
           /\ HeapLiveAt(k, Len(hist)) /\ HeapLiveAt(j, Len(hist))
           /\ hist[k].arg.align > NODE_ALIGN
           /\ \A i \in 1 .. Len(hist[k].pre) : hist[k].pre[i].addr # hist[k].ret


\* the indices of the nodes of list that qualify for the request of call k:
\* the aligned window fits and the tail left over is zero or holds a header
Fitting(k, list) ==
    {i \in 1 .. Len(list) :
        LET first == ((list[i].addr + Request(k)[2] - 1) \div Request(k)[2])
                         * Request(k)[2]
            tail == list[i].addr + list[i].size - (first + Request(k)[1])
        IN  tail = 0 \/ tail >= NODE_SIZE}

\* list without its i-th node
Without(list, i) == [j \in 1 .. (Len(list) - 1) |-> IF j < i THEN list[j] ELSE list[j + 1]]

\* C32: a heap alloc takes the first node in list order that qualifies,
\* returns the aligned start inside it, unlinks that node alone keeping the
\* others in their order, and puts a nonzero leftover tail at the head; so
\* every node of the free list has at least the size of a header.
C32_FirstFitTailToHead ==
    /\ \A i \in 1 .. Len(ALLOCATOR) : ALLOCATOR[i].size >= NODE_SIZE
    /\ \A k \in 1 .. Len(hist) :
           (hist[k].op = "heap_alloc" /\ Fitting(k, hist[k].pre) # {}) =>
               LET i == Min(Fitting(k, hist[k].pre))
                   node == hist[k].pre[i]
                   first == ((node.addr + Request(k)[2] - 1) \div Request(k)[2])
                                * Request(k)[2]
                   end == first + Request(k)[1]
                   tail == node.addr + node.size - end
               IN  /\ hist[k].panic = NoPanic
                   /\ hist[k].ret = first
                   /\ hist[k].post =
                          (IF tail > 0 THEN << [addr |-> end, size |-> tail] >>
                           ELSE << >>) \o Without(hist[k].pre, i)

\* a heap alloc passed over a node too small for it, took a later node and
\* left a tail
C32_Witness ==
    \E k \in 1 .. Len(hist) :
        /\ IsHeapAlloc(k)
        /\ Min(Fitting(k, hist[k].pre)) > 1
        /\ Len(hist[k].post) = Len(hist[k].pre)


\* a node of list starts where the block of heap call k ends, or ends where
\* it starts
AdjacentFree(k, list) ==
    \E i \in 1 .. Len(list) :
        \/ list[i].addr = hist[k].arg.ptr + Request(k)[1]
        \/ list[i].addr + list[i].size = hist[k].arg.ptr

\* C33: a heap dealloc(address, size, align) ends in no fatal condition and
\* leaves the free list as its new node {address, rounded size} followed by
\* the nodes it held before, unchanged and in their order: the new node is
\* merged with no node, adjacent in memory or not.
C33_DeallocPrependsOneNode ==
    \A k \in 1 .. Len(hist) :
        hist[k].op = "heap_dealloc" =>
            /\ hist[k].panic = NoPanic
            /\ hist[k].post =
                   << [addr |-> hist[k].arg.ptr, size |-> Request(k)[1]] >>
                       \o hist[k].pre
            /\ k = Len(hist) => ALLOCATOR = hist[k].post

\* a block was given back while a free node lay next to it in memory
C33_Witness ==
    \E k \in 1 .. Len(hist) :
        /\ hist[k].op = "heap_dealloc"
        /\ AdjacentFree(k, hist[k].pre)
        /\ Len(hist[k].post) = Len(hist[k].pre) + 1


RECURSIVE FreeBytes(_, _)
\* the sum of the sizes of the nodes of list from the i-th on
FreeBytes(list, i) ==
    IF i > Len(list) THEN 0 ELSE list[i].size + FreeBytes(list, i + 1)

RECURSIVE LiveBytes(_)
\* the sum of the rounded sizes of the live blocks among calls k .. Len(hist)
LiveBytes(k) ==
    IF k > Len(hist) THEN 0
    ELSE (IF HeapLiveAt(k, Len(hist)) THEN Request(k)[1] ELSE 0) + LiveBytes(k + 1)

\* C34: after heap alloc calls with any power-of-two alignment and matching
\* dealloc calls, the sizes of the free nodes and the rounded sizes of the
\* live blocks add up to the size of the heap region.
C34_NoBytesLost ==
    HeapMatching =>
        FreeBytes(ALLOCATOR, 1) + LiveBytes(1) = HeapRegion.size


(***************************************************************************)
(* The schedulers of the scheduler crate (scheduler/round_robin.rs and     *)
(* scheduler/niceness.rs) and the ProcessRunner that drives them           *)
(* (runner.rs).  A scheduler is the record of its struct's fields; Vec     *)
(* indices are zero-based as in the source, so the element at Rust index i *)
(* is processes[i + 1].  Instant/Duration values are whole numbers of time *)
(* units; last_tick is kept as since_tick, the time elapsed since          *)
(* last_tick, which need not be counted past tick_rate + 1 because         *)
(* schedule() only asks whether it exceeds tick_rate.                      *)
(***************************************************************************)

MaxSchedOps == 3

TickRate == 1

RoundRobin == "RoundRobinScheduler"

Niceness == "NicenessScheduler"

\* process.rs: Process::with_niceness (cpu_usage starts at Duration::ZERO)
Process(pid, name, niceness) ==
    [pid |-> pid, name |-> name, niceness |-> niceness, cpu_usage |-> 0]

\* main.rs: the first processes main() creates, with their niceness
MainProcesses ==
    << Process(0, "Process 0", 10),
       Process(1, "Process 1", 20),
       Process(3, "Process 2", -19) >>

\* process.rs: Process::badness.  0.0 / 0.0 is NaN, which `as i64` turns
\* into 0; cpu_usage never exceeds cpu_elapsed, because add_cpu_elapsed adds
\* an interval that encloses the one Process::run adds.  x / y * 256.0 is
\* exact whenever 256 x / y is whole, so the cast truncates the true quotient.
badness(process, cpu_elapsed) ==
    (IF cpu_elapsed = 0 THEN 0
     ELSE (process.cpu_usage * 256) \div cpu_elapsed)
    + process.niceness * 2

\* A poll_process that stops at the last process instead of wrapping.
rr_poll_process_no_wrap(self) ==
    IF self.current_process + 1 >= Len(self.processes)
    THEN [self EXCEPT !.current_process = Len(self.processes) - 1]
    ELSE [self EXCEPT !.current_process = self.current_process + 1]

\* round_robin.rs: RoundRobinScheduler::poll_process
rr_poll_process(self) ==
    IF self.current_process + 1 >= Len(self.processes)
    THEN [self EXCEPT !.current_process = 0]
    ELSE [self EXCEPT !.current_process = self.current_process + 1]

\* niceness.rs: NicenessScheduler::poll_process (min_by_key returns the
\* first of several equally minimal elements)
nice_poll_process(self) ==
    IF Len(self.processes) < 2
    THEN [self EXCEPT !.current_process = 0]
    ELSE LET key(i) == badness(self.processes[i + 1], self.cpu_elapsed)
             idx == 0 .. Len(self.processes) - 1
         IN  [self EXCEPT !.current_process =
                 CHOOSE i \in idx :
                     /\ \A j \in idx : key(i) <= key(j)
                     /\ \A j \in idx : j < i => key(j) > key(i)]

poll_process(self) ==
    IF self.kind = RoundRobin THEN rr_poll_process(self)
    ELSE nice_poll_process(self)

\* round_robin.rs / niceness.rs: with_processes
with_processes(kind, processes, tick_rate) ==
    [kind |-> kind, processes |-> processes, current_process |-> 0,
     tick_rate |-> tick_rate, cpu_elapsed |-> 0, since_tick |-> 0]

\* round_robin.rs / niceness.rs: current_process (Vec::get)
current_process(self) ==
    IF self.current_process < Len(self.processes)
    THEN <<"Some", self.processes[self.current_process + 1].name>>
    ELSE <<"None">>

\* round_robin.rs / niceness.rs: add_process
add_process(self, process) ==
    [self EXCEPT !.processes = Append(@, process)]

\* round_robin.rs / niceness.rs: remove_process
remove_process(self, process_name) ==
    LET found == { i \in 1 .. Len(self.processes) :
                       self.processes[i].name = process_name }
    IN  IF found = {} THEN [self |-> self, ret |-> <<"None">>]
        ELSE LET index == CHOOSE i \in found : \A j \in found : i <= j
             IN  [self |-> [self EXCEPT !.processes =
                               SubSeq(@, 1, index - 1)
                                   \o SubSeq(@, index + 1, Len(@))],
                  ret  |-> <<"Some", process_name>>]

\* round_robin.rs / niceness.rs: schedule
schedule(self) ==
    LET polled == IF self.since_tick > self.tick_rate
                  THEN poll_process([self EXCEPT !.since_tick = 0])
                  ELSE self
    IN  [self |-> polled, ret |-> current_process(polled)]

\* runner.rs: ProcessRunner::run_process; the process ran for `ran` time
\* units and the whole call took `took`
run_process(self, ran, took) ==
    LET r == schedule(self)
    IN  IF r.ret = <<"None">> THEN r
        ELSE [self |-> [r.self EXCEPT
                          !.processes[r.self.current_process + 1].cpu_usage
                              = @ + ran,
                          !.cpu_elapsed = @ + took],
              ret  |-> r.ret]

SchedKinds == {RoundRobin, Niceness}

StartLists == { SubSeq(MainProcesses, 1, n) : n \in 0 .. Len(MainProcesses) }

\* main.rs: the next process main() creates, with DEFAULT_NICENESS
NewProcesses == { Process(10, "Process 3", 0) }

ProcessNames == { MainProcesses[i].name : i \in 1 .. Len(MainProcesses) }
                    \cup { "Process 3", "Process 9" }

Durations == 1 .. 2

InitSched ==
    /\ FRAMES_ALLOCATOR = <<>>
    /\ mem = <<>>
    /\ root = 0
    /\ ALLOCATOR = <<>>
    /\ hist = <<>>
    /\ lock = 0
    /\ ctx = <<>>
    /\ \E kind \in SchedKinds, processes \in StartLists :
           scheduler = with_processes(kind, processes, TickRate)

\* Time passes between two calls of the runner's loop.
Elapse ==
    /\ scheduler.since_tick <= scheduler.tick_rate
    /\ scheduler' = [scheduler EXCEPT !.since_tick = @ + 1]
    /\ UNCHANGED <<FRAMES_ALLOCATOR, mem, root, ALLOCATOR, hist, lock, ctx>>

SchedCall(op, arg, r) ==
    /\ scheduler' = r.self
    /\ hist' = Append(hist, Call(op, arg, r.ret, NoPanic, scheduler, r.self))
    /\ UNCHANGED <<FRAMES_ALLOCATOR, mem, root, ALLOCATOR, lock, ctx>>

AddProcess ==
    /\ Len(hist) < MaxSchedOps
    /\ \E process \in NewProcesses :
           SchedCall("add_process", process,
                     [self |-> add_process(scheduler, process), ret |-> <<>>])

RemoveProcess ==
    /\ Len(hist) < MaxSchedOps
    /\ \E name \in ProcessNames :
           SchedCall("remove_process", name, remove_process(scheduler, name))

Schedule ==
    /\ Len(hist) < MaxSchedOps
    /\ SchedCall("schedule", <<>>, schedule(scheduler))

RunProcess ==
    \E ran \in Durations, took \in Durations :
        /\ Len(hist) < MaxSchedOps
        /\ ran <= took
        /\ SchedCall("run_process", <<ran, took>>,
                     run_process(scheduler, ran, took))

NextSched == Elapse \/ AddProcess \/ RemoveProcess \/ Schedule \/ RunProcess

SpecSched == InitSched /\ [][NextSched]_vars

\* C35: with either scheduler, after any sequence of add_process,
\* remove_process and schedule calls, current_process is a valid index of
\* the process list whenever the list is not empty, so that current_process()
\* and every schedule() made with a non-empty list return a process.
C35_CurrentProcessValid ==
    /\ scheduler.processes # <<>> =>
           /\ scheduler.current_process < Len(scheduler.processes)
           /\ current_process(scheduler) # <<"None">>
    /\ \A k \in 1 .. Len(hist) :
           (hist[k].op = "schedule" /\ hist[k].post.processes # <<>>)
               => hist[k].ret # <<"None">>


(***************************************************************************)
(* The runner's loop over a RoundRobinScheduler whose process list stays   *)
(* as it was built: time passes and schedule() is called again and again   *)
(* (main.rs: while runner.run() {}).  hist keeps the calls of schedule()   *)
(* that polled, the last len of them, len being the number of processes.   *)
(***************************************************************************)

MaxPollLen == 3

PollPool == { MainProcesses[i] : i \in 1 .. Len(MainProcesses) }
                \cup NewProcesses

PollLists ==
    { s \in UNION { [1 .. n -> PollPool] : n \in 1 .. MaxPollLen } :
          \A i, j \in DOMAIN s : s[i] = s[j] => i = j }

InitPolls ==
    /\ FRAMES_ALLOCATOR = <<>>
    /\ mem = <<>>
    /\ root = 0
    /\ ALLOCATOR = <<>>
    /\ hist = <<>>
    /\ lock = 0
    /\ ctx = <<>>
    /\ \E processes \in PollLists :
           scheduler = with_processes(RoundRobin, processes, TickRate)

LastCalls(calls, n) ==
    IF Len(calls) <= n THEN calls
    ELSE SubSeq(calls, Len(calls) - n + 1, Len(calls))

\* runner.rs: one turn of the loop calls schedule()
Tick ==
    \E r \in { schedule(scheduler) } :
        /\ scheduler' = r.self
        /\ hist' = IF scheduler.since_tick > scheduler.tick_rate
                   THEN LastCalls(Append(hist, Call("schedule", <<>>, r.ret,
                                                    NoPanic, scheduler, r.self)),
                                  Len(scheduler.processes))
                   ELSE hist
        /\ UNCHANGED <<FRAMES_ALLOCATOR, mem, root, ALLOCATOR, lock, ctx>>

NextPolls == Elapse \/ Tick

SpecPolls == InitPolls /\ [][NextPolls]_vars

\* The clock advances, and the loop keeps calling schedule().
SpecPollsFair == SpecPolls /\ WF_vars(Elapse) /\ WF_vars(Tick)

\* The call of schedule() that this step makes polls.
Polls == scheduler.since_tick > scheduler.tick_rate /\ hist' # hist

\* C36: with a fixed non-empty process list, each tick-triggered poll of the
\* RoundRobinScheduler selects the process after the current one in list
\* order, the first after the last; any len consecutive polls select every
\* process exactly once; and every process is selected again and again.
C36_RoundRobinOrder ==
    /\ [][Polls =>
            /\ scheduler'.processes = scheduler.processes
            /\ scheduler'.current_process =
                   (scheduler.current_process + 1) % Len(scheduler.processes)
            /\ hist'[Len(hist')].ret =
                   <<"Some", scheduler.processes[scheduler'.current_process + 1].name>>]_vars
    /\ [](Len(hist) = Len(scheduler.processes) =>
            \A i \in 0 .. Len(scheduler.processes) - 1 :
                Cardinality({ k \in 1 .. Len(hist) :
                                hist[k].post.current_process = i }) = 1)
    /\ \A i \in 0 .. MaxPollLen - 1 :
           []<>(i < Len(scheduler.processes) => scheduler.current_process = i)

\* C36: a full window of polls whose last poll wrapped from the last process
\* to the first.
C36_Witness ==
    /\ Len(scheduler.processes) >= 2
    /\ Len(hist) = Len(scheduler.processes)
    /\ hist[Len(hist)].pre.current_process = Len(scheduler.processes) - 1
    /\ hist[Len(hist)].post.current_process = 0
    /\ hist[Len(hist)].ret = <<"Some", scheduler.processes[1].name>>

====
